---- MODULE Spec2Model ----
(***************************************************************************)
(* Verification model of the DALI video frame decoder base                 *)
(* (dali/operators/video/frames_decoder_base.cc) and of the staged         *)
(* executor (executor_impl.h, async_separated_pipelined_executor.h).       *)
(*                                                                         *)
(* The module holds several state machines over one set of variables:      *)
(*   SpecBoundary  - FramesDecoderBase::HandleBoundary as a pure function  *)
(*   Spec          - one FramesDecoderBase object over one media source    *)
(*   SpecIndex     - the index builder of that object                      *)
(*   SpecVfr       - the index builder over evenly and unevenly timed sources *)
(*   SpecDecode    - DecodeFrames, both forms, on that object              *)
(*   SpecMemFile   - one MemoryVideoFile under Read and Seek calls         *)
(*   SpecExec      - one executor, its stage threads and its callers       *)
(*   SpecExecFair  - SpecExec with fair scheduling of the threads          *)
(*   SpecDevice    - SpecExec with outputs produced on the device          *)
(*   SpecShutdownFair - SpecExecFair with the joins of Shutdown returning  *)
(*   SpecShutdown  - the asynchronous executor, Shutdown by statement      *)
(*   SpecWorkerError - the asynchronous executor, worker tasks that throw  *)
(* Every specification keeps the variables of the other machines fixed.    *)
(***************************************************************************)
EXTENDS Integers, Sequences, FiniteSets, TLC

VARIABLES
  hb,      \* the last HandleBoundary call: its arguments and its outcome
  src,     \* the media source: the container's packets and its header frame count
  dec,     \* the FramesDecoderBase object's fields and the demuxer position
  last,    \* the last public decoder call: operation, argument, outcome
  exec,    \* the executor's fields and the queues of its queue policy
  runner,  \* the thread calling Run(): its position inside the call
  workers, \* the stage worker threads of the asynchronous executor
  con,     \* the thread calling Outputs / ShareOutputs / ReleaseOutputs
  ctl      \* the thread calling ShutdownQueue / Shutdown, and the stop's history

bndVars == <<hb>>
decVars == <<src, dec, last>>
execVars == <<exec, runner, workers, con, ctl>>
vars == <<hb, src, dec, last, exec, runner, workers, con, ctl>>

(***************************************************************************)
(* Bounds of the model.                                                    *)
(***************************************************************************)
MaxPackets == 2      \* packets in a media source of the seek machine
MaxIndexPackets == 3 \* packets in a media source of the index builder
MaxPts == 2          \* largest timestamp a packet carries
MaxRoiStart == 2     \* largest roi_start handed to HandleBoundary
MaxRoiLen == 3       \* largest roi_end - roi_start handed to HandleBoundary
MaxOut == 4          \* how far outside the range an index is drawn

Min(a, b) == IF a < b THEN a ELSE b
Max(a, b) == IF a > b THEN a ELSE b

(***************************************************************************)
(* Boundary handling.                                                      *)
(***************************************************************************)
\* boundary::BoundaryType: the five policies HandleBoundary accepts, and
\* OTHER for every further value of the enumeration.
BoundaryTypes == {"CLAMP", "CONSTANT", "REFLECT_1001", "REFLECT_101", "ISOLATED", "OTHER"}

\* boundary::idx_reflect_101(idx, hi): mirror into [0, hi), edge sample not repeated.
RECURSIVE idx_reflect_101(_, _)
idx_reflect_101(idx, hi) ==
  IF hi < 2 THEN hi - 1
  ELSE IF idx < 0 THEN idx_reflect_101(0 - idx, hi)
  ELSE IF idx >= hi THEN idx_reflect_101(2 * hi - 2 - idx, hi)
  ELSE idx

\* boundary::idx_reflect_1001(idx, hi): mirror into [0, hi), edge sample repeated.
RECURSIVE idx_reflect_1001(_, _)
idx_reflect_1001(idx, hi) ==
  IF hi < 1 THEN hi - 1
  ELSE IF idx < 0 THEN idx_reflect_1001(0 - 1 - idx, hi)
  ELSE IF idx >= hi THEN idx_reflect_1001(2 * hi - 1 - idx, hi)
  ELSE idx

\* std::clamp(v, lo, hi)
clamp(v, lo, hi) == IF v < lo THEN lo ELSE IF hi < v THEN hi ELSE v

Returned(v) == [raised |-> "none", value |-> v]
Raised(what) == [raised |-> what, value |-> 0]

\* HandleBoundary with ISOLATED handled like CLAMP.
HandleBoundary_IsolatedClamps(boundary_type, frame_id, roi_start, roi_end) ==
  IF boundary_type \notin {"CLAMP", "CONSTANT", "REFLECT_1001", "REFLECT_101", "ISOLATED"}
  THEN Raised("invalid_boundary_type")
  ELSE IF frame_id >= roi_start /\ frame_id < roi_end THEN Returned(frame_id)
  ELSE CASE boundary_type \in {"CLAMP", "ISOLATED"} ->
              Returned(clamp(frame_id, roi_start, roi_end - 1))
         [] boundary_type = "CONSTANT" -> Returned(0 - 1)
         [] boundary_type = "REFLECT_1001" -> Returned(idx_reflect_1001(frame_id, roi_end))
         [] boundary_type = "REFLECT_101" -> Returned(idx_reflect_101(frame_id, roi_end))

\* HandleBoundary with the CONSTANT sentinel taken relative to roi_start.
HandleBoundary_SentinelFromStart(boundary_type, frame_id, roi_start, roi_end) ==
  IF boundary_type \notin {"CLAMP", "CONSTANT", "REFLECT_1001", "REFLECT_101", "ISOLATED"}
  THEN Raised("invalid_boundary_type")
  ELSE IF frame_id >= roi_start /\ frame_id < roi_end THEN Returned(frame_id)
  ELSE CASE boundary_type = "CLAMP" -> Returned(clamp(frame_id, roi_start, roi_end - 1))
         [] boundary_type = "CONSTANT" -> Returned(roi_start - 1)
         [] boundary_type = "REFLECT_1001" -> Returned(idx_reflect_1001(frame_id, roi_end))
         [] boundary_type = "REFLECT_101" -> Returned(idx_reflect_101(frame_id, roi_end))
         [] OTHER -> Raised("out_of_bounds")

\* HandleBoundary with the in-range test left out for ISOLATED.
HandleBoundary_IsolatedAlwaysRaises(boundary_type, frame_id, roi_start, roi_end) ==
  IF boundary_type \notin {"CLAMP", "CONSTANT", "REFLECT_1001", "REFLECT_101", "ISOLATED"}
  THEN Raised("invalid_boundary_type")
  ELSE IF boundary_type = "ISOLATED" THEN Raised("out_of_bounds")
  ELSE IF frame_id >= roi_start /\ frame_id < roi_end THEN Returned(frame_id)
  ELSE CASE boundary_type = "CLAMP" -> Returned(clamp(frame_id, roi_start, roi_end - 1))
         [] boundary_type = "CONSTANT" -> Returned(0 - 1)
         [] boundary_type = "REFLECT_1001" -> Returned(idx_reflect_1001(frame_id, roi_end))
         [] boundary_type = "REFLECT_101" -> Returned(idx_reflect_101(frame_id, roi_end))

\* HandleBoundary clamping to roi_end, one past the last frame.
HandleBoundary_ClampsToEnd(boundary_type, frame_id, roi_start, roi_end) ==
  IF boundary_type \notin {"CLAMP", "CONSTANT", "REFLECT_1001", "REFLECT_101", "ISOLATED"}
  THEN Raised("invalid_boundary_type")
  ELSE IF frame_id >= roi_start /\ frame_id < roi_end THEN Returned(frame_id)
  ELSE CASE boundary_type = "CLAMP" -> Returned(clamp(frame_id, roi_start, roi_end))
         [] boundary_type = "CONSTANT" -> Returned(0 - 1)
         [] boundary_type = "REFLECT_1001" -> Returned(idx_reflect_1001(frame_id, roi_end))
         [] boundary_type = "REFLECT_101" -> Returned(idx_reflect_101(frame_id, roi_end))
         [] OTHER -> Raised("out_of_bounds")

\* FramesDecoderBase::HandleBoundary
HandleBoundary(boundary_type, frame_id, roi_start, roi_end) ==
  IF boundary_type \notin {"CLAMP", "CONSTANT", "REFLECT_1001", "REFLECT_101", "ISOLATED"}
  THEN Raised("invalid_boundary_type")
  ELSE IF frame_id >= roi_start /\ frame_id < roi_end THEN Returned(frame_id)
  ELSE CASE boundary_type = "CLAMP" -> Returned(clamp(frame_id, roi_start, roi_end - 1))
         [] boundary_type = "CONSTANT" -> Returned(0 - 1)
         [] boundary_type = "REFLECT_1001" -> Returned(idx_reflect_1001(frame_id, roi_end))
         [] boundary_type = "REFLECT_101" -> Returned(idx_reflect_101(frame_id, roi_end))
         [] OTHER -> Raised("out_of_bounds")

(***************************************************************************)
(* The frame decoder over one media source.                                *)
(***************************************************************************)
\* AV_NOPTS_VALUE is INT64_MIN in libav; the model's integers are 32 bits wide,
\* so the smallest model timestamp stands for it.
AV_NOPTS_VALUE == -2147483647

\* constexpr int MINIMUM_SEEK_LEAP
MINIMUM_SEEK_LEAP == 10

Timestamps == (0 - 1)..MaxPts

\* What av_read_frame hands out. key is the outcome of the keyframe test of
\* BuildIndex for the packet (AV_PKT_FLAG_KEY, confirmed by the NAL unit scan for
\* H.264 / HEVC). dts is read only when pts is AV_NOPTS_VALUE.
VideoPackets ==
  [stream : {"video"}, pts : Timestamps, dts : {AV_NOPTS_VALUE}, key : BOOLEAN]
    \cup [stream : {"video"}, pts : {AV_NOPTS_VALUE}, dts : {AV_NOPTS_VALUE}, key : {FALSE}]
    \cup [stream : {"video"}, pts : {AV_NOPTS_VALUE}, dts : {0}, key : BOOLEAN]
OtherPacket == [stream |-> "other", pts |-> 0, dts |-> 0, key |-> FALSE]
Packets == VideoPackets \cup {OtherPacket}

RECURSIVE CountVideo(_, _)
\* the packets of the selected stream among pk[from+1 .. Len(pk)]
CountVideo(pk, from) ==
  IF from >= Len(pk) THEN 0
  ELSE (IF pk[from + 1].stream = "video" THEN 1 ELSE 0) + CountVideo(pk, from + 1)

\* A source: its packets in container order and the frame count of the stream
\* header (nb_frames; 0 when the container does not state it).
Sources(n) ==
  UNION {[packets : {p}, nb_frames : {0, CountVideo(p, 0)}] :
           p \in UNION {[1..k -> Packets] : k \in 0..n}}

\* Sources long enough for a seek of more than MINIMUM_SEEK_LEAP frames: every
\* packet of the stream, timestamps in container order, keyframes at some of the
\* positions LongKeyPositions.
LongLen == MINIMUM_SEEK_LEAP + 2
LongKeyPositions == {0, 3, 7}
LongSources ==
  {[packets |-> [i \in 1..LongLen |->
                   [stream |-> "video", pts |-> i - 1, dts |-> AV_NOPTS_VALUE,
                    key |-> (i - 1) \in keys]],
    nb_frames |-> nb] : keys \in SUBSET LongKeyPositions, nb \in {0, LongLen}}

\* index_[i] and its neighbours are 0-based in the source, 1-based here.
\* Reading index_[i] outside the vector is undefined: any entry may come back.
GarbageEntries ==
  [pts : {0, MaxPts}, is_keyframe : {FALSE}, is_flush_frame : {FALSE},
   last_keyframe_id : {0 - 1, 0}]
IndexAt(s, i) ==
  IF i >= 0 /\ i < Len(s.index_) THEN {s.index_[i + 1]} ELSE GarbageEntries

\* FrameIndex / HasIndex(): an index exists when the entry list is not empty.
HasIndex(s) == Len(s.index_) > 0

\* skip_from of a call that did not reach the skip loop of SeekFrame
NoSkip == 0 - 2

\* The decoder after its constructor and SelectVideoStream.
Constructed ==
  [index_ |-> <<>>, num_frames_ |-> 0 - 1, next_frame_idx_ |-> 0, can_seek_ |-> TRUE,
   is_vfr_ |-> FALSE, pos |-> 0,
   n_seek |-> 0, n_reset |-> 0, n_read |-> 0, asserts_ok |-> TRUE,
   seek_ts |-> AV_NOPTS_VALUE, seek_failed |-> FALSE,
   skip_from |-> NoSkip]

\* The per-call counters (container seeks, resets, frame reads, assert outcome),
\* the timestamp handed to the container seek and whether AvSeekFrame returned
\* false start afresh with every public call and stay readable until the next one.
Enter(s) ==
  [s EXCEPT !.n_seek = 0, !.n_reset = 0, !.n_read = 0, !.asserts_ok = TRUE,
            !.seek_ts = AV_NOPTS_VALUE, !.seek_failed = FALSE,
            !.skip_from = NoSkip]

\* FramesDecoderBase::Reset: reopen the source at position zero, reselect the stream.
Reset(s) ==
  [s EXCEPT !.pos = 0, !.can_seek_ = TRUE, !.next_frame_idx_ = 0, !.n_reset = @ + 1]

\* FramesDecoderBase::ParseNumFrames: count the stream's packets from the current
\* demuxer position to the end of the file, then Reset.
ParseNumFrames(s) ==
  Reset([s EXCEPT !.num_frames_ = CountVideo(src.packets, s.pos),
                  !.pos = Len(src.packets)])

\* FramesDecoderBase::NumFrames: the decoder after the call; the value returned
\* is its num_frames_.
NumFrames(s) ==
  IF s.num_frames_ >= 0 THEN s
  ELSE IF src.nb_frames > 0 THEN [s EXCEPT !.num_frames_ = src.nb_frames]
  ELSE ParseNumFrames(s)

RECURSIVE AfterNextVideo(_, _)
\* the demuxer position after reading packets up to and including the next
\* packet of the selected stream (the end of the file when there is none)
AfterNextVideo(pk, from) ==
  IF from >= Len(pk) THEN Len(pk)
  ELSE IF pk[from + 1].stream = "video" THEN from + 1
  ELSE AfterNextVideo(pk, from + 1)

\* ReadNextFrame (implemented by the derived decoders): decode the next frame and
\* advance next_frame_idx_ by one; past the last frame of the stream the decoder is
\* invalid (next_frame_idx_ = -1), and an invalid decoder yields no frame.
ReadNextFrame(s) ==
  IF s.next_frame_idx_ < 0 THEN [s EXCEPT !.n_read = @ + 1]
  ELSE LET n == s.next_frame_idx_ + 1
           end == IF s.num_frames_ >= 0 THEN s.num_frames_
                  ELSE CountVideo(src.packets, 0)
       IN [s EXCEPT !.pos = AfterNextVideo(src.packets, s.pos),
                    !.next_frame_idx_ = IF n >= end THEN 0 - 1 ELSE n,
                    !.n_read = @ + 1]

SetMax(S) == CHOOSE x \in S : \A y \in S : y <= x

\* entry.pts = (packet->pts != AV_NOPTS_VALUE) ? packet->pts : packet->dts
EntryPts(packet) == IF packet.pts # AV_NOPTS_VALUE THEN packet.pts ELSE packet.dts

RECURSIVE Scan(_, _, _)
\* The read loop of BuildIndex from demuxer position i on, with the decoder s and
\* the local last_keyframe: the decoder when the loop ends, and whether it ended
\* by the 'no valid timestamps' failure.
Scan(s, last_keyframe, i) ==
  IF i >= Len(src.packets) THEN [s |-> [s EXCEPT !.pos = Len(src.packets)], failed |-> FALSE]
  ELSE LET packet == src.packets[i + 1] IN
    IF packet.stream # "video" THEN Scan(s, last_keyframe, i + 1)
    ELSE IF EntryPts(packet) = AV_NOPTS_VALUE
      THEN [s |-> [s EXCEPT !.pos = i + 1], failed |-> TRUE]
    ELSE IF EntryPts(packet) < 0 THEN Scan(s, last_keyframe, i + 1)
    ELSE LET lk == IF packet.key THEN Len(s.index_) ELSE last_keyframe
             entry == [pts |-> EntryPts(packet), is_keyframe |-> packet.key,
                       is_flush_frame |-> FALSE, last_keyframe_id |-> lk]
         IN Scan([s EXCEPT !.index_ = Append(@, entry),
                           !.num_frames_ = Len(s.index_) + 1], lk, i + 1)

\* index_.index.back().is_flush_frame = true
MarkFlush(index) == [index EXCEPT ![Len(index)].is_flush_frame = TRUE]

RECURSIVE SortedFrom(_, _)
\* every ordering by pts of the entries at the positions rest
SortedFrom(index, rest) ==
  IF rest = {} THEN {<<>>}
  ELSE UNION {{<<index[m]>> \o tail : tail \in SortedFrom(index, rest \ {m})} :
                m \in {k \in rest : \A j \in rest : index[k].pts <= index[j].pts}}

\* std::sort of the entries with the comparator a.pts < b.pts: the outcomes the
\* library may produce (entries of equal pts come out in any order).
SortByPts(index) == SortedFrom(index, 1..Len(index))

\* keyframe_positions: the 0-based positions of the keyframes
KeyframePositions(index) == {i \in 0..(Len(index) - 1) : index[i + 1].is_keyframe}

\* The search done with lower_bound: a keyframe at position i itself is missed.
LastKeyframeAt_Strict(kp, i) ==
  IF {k \in kp : k < i} = {} THEN 0 ELSE SetMax({k \in kp : k < i})

\* The value the upper_bound search gives entry i: the last keyframe position
\* not greater than i, and 0 when every keyframe position is greater.
LastKeyframeAt(kp, i) ==
  IF {k \in kp : k <= i} = {} THEN 0 ELSE SetMax({k \in kp : k <= i})

\* The loop that rewrites last_keyframe_id of every entry after the sort.
UpdateLastKeyframe(index) ==
  [i \in 1..Len(index) |->
     [index[i] EXCEPT !.last_keyframe_id = LastKeyframeAt(KeyframePositions(index), i - 1)]]

\* FramesDecoderBase::DetectVariableFrameRate
DetectVariableFrameRate(s) ==
  [s EXCEPT !.is_vfr_ =
     /\ Len(s.index_) > 3
     /\ \E i \in 2..(Len(s.index_) - 1) :
          s.index_[i + 1].pts - s.index_[i].pts # s.index_[2].pts - s.index_[1].pts]

\* BuildIndex after the read loop without the closing Reset of line 436.
FinishIndex_NoReset(s, sorted) ==
  IF KeyframePositions(sorted) = {}
  THEN [s |-> [s EXCEPT !.index_ = sorted], raised |-> "no_keyframes"]
  ELSE [s |-> DetectVariableFrameRate([s EXCEPT !.index_ = UpdateLastKeyframe(sorted)]),
        raised |-> "none"]

\* BuildIndex after the read loop, for one outcome of the sort.
FinishIndex(s, sorted) ==
  IF KeyframePositions(sorted) = {}
  THEN [s |-> [s EXCEPT !.index_ = sorted], raised |-> "no_keyframes"]
  ELSE [s |-> Reset(DetectVariableFrameRate([s EXCEPT !.index_ = UpdateLastKeyframe(sorted)])),
        raised |-> "none"]

\* BuildIndex without the early return of lines 296-298: it scans every time.
BuildIndex_AlwaysScans(s0) ==
  LET sc == Scan([s0 EXCEPT !.index_ = <<>>], 0 - 1, s0.pos) IN
    IF sc.failed THEN {[s |-> sc.s, raised |-> "no_valid_timestamps"]}
    ELSE IF Len(sc.s.index_) = 0 THEN {[s |-> sc.s, raised |-> "no_valid_frames"]}
    ELSE {FinishIndex(sc.s, sorted) : sorted \in SortByPts(MarkFlush(sc.s.index_))}

\* FramesDecoderBase::BuildIndex: the decoders it may leave and what it raised.
BuildIndex(s0) ==
  IF HasIndex(s0) THEN {[s |-> s0, raised |-> "none"]}
  ELSE LET sc == Scan([s0 EXCEPT !.index_ = <<>>], 0 - 1, s0.pos) IN
    IF sc.failed THEN {[s |-> sc.s, raised |-> "no_valid_timestamps"]}
    ELSE IF Len(sc.s.index_) = 0 THEN {[s |-> sc.s, raised |-> "no_valid_frames"]}
    ELSE {FinishIndex(sc.s, sorted) : sorted \in SortByPts(MarkFlush(sc.s.index_))}

\* The packets of the stream whose timestamp is not after the target.
NotAfter(timestamp) ==
  {j \in 1..Len(src.packets) :
     /\ src.packets[j].stream = "video"
     /\ EntryPts(src.packets[j]) # AV_NOPTS_VALUE
     /\ EntryPts(src.packets[j]) <= timestamp}

\* Where av_seek_frame(timestamp, AVSEEK_FLAG_BACKWARD) leaves the demuxer when it
\* succeeds: at a packet of the stream nearest to the target among those not after it.
Landing(timestamp) ==
  {j - 1 : j \in {k \in NotAfter(timestamp) :
                    \A m \in NotAfter(timestamp) :
                      EntryPts(src.packets[m]) <= EntryPts(src.packets[k])}}

\* FramesDecoderBase::AvSeekFrame: the decoders it may leave and what it returned.
\* The container-level seek is the library's: it may fail at any time.
AvSeekFrame(s, timestamp, frame_id) ==
  IF ~s.can_seek_ THEN {[s |-> [s EXCEPT !.seek_failed = TRUE], ret |-> FALSE]}
  ELSE {[s |-> [s EXCEPT !.can_seek_ = FALSE, !.n_seek = @ + 1, !.seek_ts = timestamp,
                         !.seek_failed = TRUE],
          ret |-> FALSE]}
       \cup {[s |-> [s EXCEPT !.pos = p, !.next_frame_idx_ = frame_id, !.n_seek = @ + 1,
                               !.seek_ts = timestamp],
              ret |-> TRUE] : p \in Landing(timestamp)}

\* The call of AvSeekFrame without the Reset after a failed seek.
SeekOrReset_NoReset(s, timestamp, frame_id) ==
  {r.s : r \in AvSeekFrame(s, timestamp, frame_id)}

\* if (!AvSeekFrame(keyframe_entry.pts, keyframe_id)) Reset();
SeekOrReset(s, timestamp, frame_id) ==
  {IF r.ret THEN r.s ELSE Reset(r.s) : r \in AvSeekFrame(s, timestamp, frame_id)}

\* The keyframe jump without the distance test of line 522: the index is
\* consulted for every target.
SeekJump_NoLeap(s, frame_id) ==
  IF HasIndex(s)
  THEN UNION {
         IF current_frame.last_keyframe_id # requested_frame.last_keyframe_id
            \/ frame_id < s.next_frame_idx_
         THEN UNION {SeekOrReset(s, keyframe_entry.pts, requested_frame.last_keyframe_id) :
                       keyframe_entry \in IndexAt(s, requested_frame.last_keyframe_id)}
         ELSE {s} :
         current_frame \in IndexAt(s, s.next_frame_idx_),
         requested_frame \in IndexAt(s, frame_id)}
  ELSE IF frame_id < s.next_frame_idx_ THEN {Reset(s)} ELSE {s}

\* SeekFrame, the keyframe jump (lines 522-554): the decoders it may leave.
SeekJump(s, frame_id) ==
  IF frame_id < s.next_frame_idx_ \/ frame_id > s.next_frame_idx_ + MINIMUM_SEEK_LEAP
  THEN IF HasIndex(s)
       THEN UNION {
              IF current_frame.last_keyframe_id # requested_frame.last_keyframe_id
                 \/ frame_id < s.next_frame_idx_
              THEN UNION {SeekOrReset(s, keyframe_entry.pts, requested_frame.last_keyframe_id) :
                            keyframe_entry \in IndexAt(s, requested_frame.last_keyframe_id)}
              ELSE {s} :
              current_frame \in IndexAt(s, s.next_frame_idx_),
              requested_frame \in IndexAt(s, frame_id)}
       ELSE IF frame_id < s.next_frame_idx_ THEN {Reset(s)} ELSE {s}
  ELSE {s}

RECURSIVE AfterVideoFrom(_, _)
\* the demuxer position after n packets of the stream were read from position p
AfterVideoFrom(p, n) ==
  IF n <= 0 THEN p ELSE AfterVideoFrom(AfterNextVideo(src.packets, p), n - 1)

\* the demuxer position after the first n frames of the source were read
AfterVideo(n) == AfterVideoFrom(0, n)

RECURSIVE ReadFrames(_, _)
\* n calls of ReadNextFrame(nullptr)
ReadFrames(s, n) == IF n <= 0 THEN s ELSE ReadFrames(ReadNextFrame(s), n - 1)

\* SeekFrame, the skip loop with its two assertions (lines 557-565). skip_from
\* keeps next_frame_idx_ as the first assertion finds it.
SkipFrames(s, frame_id) ==
  LET t == ReadFrames(s, frame_id - s.next_frame_idx_)
  IN [t EXCEPT !.asserts_ok = @ /\ s.next_frame_idx_ <= frame_id
                                /\ t.next_frame_idx_ = frame_id,
               !.skip_from = s.next_frame_idx_]

\* SeekFrame with the range test accepting frame_id = NumFrames().
SeekFrame_AcceptsEnd(s0, frame_id) ==
  LET s1 == NumFrames(s0) IN
  IF ~(frame_id >= 0 /\ frame_id <= s1.num_frames_)
  THEN {[s |-> s1, raised |-> "invalid_seek_frame_id"]}
  ELSE IF frame_id = s1.next_frame_idx_ THEN {[s |-> s1, raised |-> "none"]}
  ELSE {[s |-> SkipFrames(j, frame_id), raised |-> "none"] :
          j \in SeekJump(IF s1.next_frame_idx_ < 0 THEN Reset(s1) ELSE s1, frame_id)}

\* FramesDecoderBase::SeekFrame: the decoders it may leave and what it raised.
\* NumFrames() is evaluated by the range test or, for a negative frame_id, by the
\* error message.
SeekFrame(s0, frame_id) ==
  LET s1 == NumFrames(s0) IN
  IF ~(frame_id >= 0 /\ frame_id < s1.num_frames_)
  THEN {[s |-> s1, raised |-> "invalid_seek_frame_id"]}
  ELSE IF frame_id = s1.next_frame_idx_ THEN {[s |-> s1, raised |-> "none"]}
  ELSE {[s |-> SkipFrames(j, frame_id), raised |-> "none"] :
          j \in SeekJump(IF s1.next_frame_idx_ < 0 THEN Reset(s1) ELSE s1, frame_id)}

NoCall == [called |-> FALSE]

HbInit == hb = NoCall

\* One call HandleBoundary(boundary_type, frame_id, roi_start, roi_end) on a
\* non-empty range.
CallHandleBoundary ==
  \E bt \in BoundaryTypes, rs \in 0..MaxRoiStart, len \in 1..MaxRoiLen :
    \E id \in (rs - MaxOut)..(rs + len - 1 + MaxOut) :
      hb' = [called |-> TRUE, boundary_type |-> bt, frame_id |-> id,
             roi_start |-> rs, roi_end |-> rs + len,
             res |-> HandleBoundary(bt, id, rs, rs + len)]

DecIdle == src = [packets |-> <<>>, nb_frames |-> 0] /\ dec = NoCall /\ last = NoCall
ExecIdle ==
  exec = NoCall /\ runner = NoCall /\ workers = NoCall /\ con = NoCall /\ ctl = NoCall

BoundaryInit == HbInit /\ DecIdle /\ ExecIdle
BoundaryNext == CallHandleBoundary /\ UNCHANGED <<decVars, execVars>>
SpecBoundary == BoundaryInit /\ [][BoundaryNext]_vars

(***************************************************************************)
(* The decoder's state machine: a source is opened, then its public        *)
(* operations are called in any order. A call that raises leaves the       *)
(* object as the code left it when the exception was thrown.               *)
(***************************************************************************)
Call(op, arg, r) ==
  /\ dec' = r.s
  /\ last' = [called |-> TRUE, op |-> op, arg |-> arg, raised |-> r.raised]
  /\ UNCHANGED <<src, hb, execVars>>

BuildIndexCall == \E r \in BuildIndex(Enter(dec)) : Call("BuildIndex", 0, r)

SeekFrameCall ==
  \E frame_id \in (0 - 1)..Len(src.packets) :
    \E r \in SeekFrame(Enter(dec), frame_id) : Call("SeekFrame", frame_id, r)

ReadNextFrameCall ==
  Call("ReadNextFrame", 0, [s |-> ReadNextFrame(Enter(dec)), raised |-> "none"])

NumFramesCall == Call("NumFrames", 0, [s |-> NumFrames(Enter(dec)), raised |-> "none"])

ResetCall == Call("Reset", 0, [s |-> Reset(Enter(dec)), raised |-> "none"])

HbIdle == hb = NoCall

\* The seek machine: every operation, over the short sources and the long ones.
Init ==
  /\ src \in Sources(MaxPackets) \cup LongSources
  /\ dec = Constructed /\ last = NoCall /\ HbIdle /\ ExecIdle
Next ==
  \/ BuildIndexCall
  \/ SeekFrameCall
  \/ ReadNextFrameCall
  \/ NumFramesCall
  \/ ResetCall
Spec == Init /\ [][Next]_vars

\* The index builder: BuildIndex, possibly after frame reads and frame counts.
IndexInit ==
  /\ src \in Sources(MaxIndexPackets)
  /\ dec = Constructed /\ last = NoCall /\ HbIdle /\ ExecIdle
IndexNext ==
  \/ BuildIndexCall
  \/ ReadNextFrameCall
  \/ NumFramesCall
SpecIndex == IndexInit /\ [][IndexNext]_vars

\* The variable-frame-rate detector: BuildIndex over sources of up to MaxVfrPackets
\* packets of the stream, the first a keyframe. Packet i is due at 10 * (i - 1)
\* and is on time, early, late, or so late that it is stored before an earlier
\* frame's successor; the last packet may lack every timestamp.
MaxVfrPackets == 5
VfrOffsets == {0 - 5, 0, 5, 15}
VfrPacket(pts, key) == [stream |-> "video", pts |-> pts, dts |-> AV_NOPTS_VALUE, key |-> key]
VfrSources(n) ==
  UNION {{[packets |-> [i \in 1..k |->
                         IF i = k /\ broken THEN VfrPacket(AV_NOPTS_VALUE, FALSE)
                         ELSE VfrPacket(10 * (i - 1) + d[i], i = 1)],
           nb_frames |-> 0] : d \in [1..k -> VfrOffsets], broken \in BOOLEAN} :
         k \in 3..n}

VfrInit ==
  /\ src \in VfrSources(MaxVfrPackets)
  /\ dec = Constructed /\ last = NoCall /\ hb = NoCall
  /\ exec = NoCall /\ runner = NoCall /\ workers = NoCall /\ con = NoCall /\ ctl = NoCall
VfrNext ==
  \/ BuildIndexCall
  \/ NumFramesCall
SpecVfr == VfrInit /\ [][VfrNext]_vars

(***************************************************************************)
(* DecodeFrames. In SpecDecode last also keeps, for a DecodeFrames call,   *)
(* the requests, what each output slot holds afterwards and the targets of *)
(* the SeekFrame calls in the order they were made.                        *)
(***************************************************************************)
MaxDecodeLen == 3   \* frames in a source of the decode machine
MaxRequests == 2    \* entries of a frame_ids list
MaxRangeLen == 3    \* largest end_frame - start_frame of the range form
MaxStride == 2

\* Sources of n frames whose packets all belong to the stream, with timestamps
\* in container order and a keyframe first; the last frame may be a second
\* keyframe, and the container may or may not state the frame count.
DecodeSources(n) ==
  {[packets |-> [i \in 1..n |->
                   [stream |-> "video", pts |-> i - 1, dts |-> AV_NOPTS_VALUE,
                    key |-> (i = 1 \/ i \in keys)]],
    nb_frames |-> nb] : keys \in {{}, {n}}, nb \in {0, n}}

\* The frame indices a frame_ids list is drawn from: every frame, one index
\* below the range and one past the end.
DecodeIds == (0 - 1)..MaxDecodeLen

\* What an output slot holds: the number of a decoded frame (the 0-based place
\* of its packet among the packets of the stream) or, below zero, nothing yet,
\* the constant frame, or bytes copied from outside the output or from a null
\* pointer.
Unwritten == 0 - 1
ConstantFrame == 0 - 2
Garbage == 0 - 3

\* The frame ReadNextFrame(data) decodes into data: the next frame of the
\* stream at the demuxer position; none when the decoder is invalid or the
\* stream has ended.
FrameRead(s) ==
  IF s.next_frame_idx_ < 0 \/ CountVideo(src.packets, s.pos) = 0 THEN Unwritten
  ELSE CountVideo(src.packets, 0) - CountVideo(src.packets, s.pos)

RECURSIVE SortPairs(_)
\* std::sort of the pairs {resolved index, output slot}: ascending by the
\* resolved index, then by the slot.
SortPairs(pairs) ==
  IF pairs = {} THEN <<>>
  ELSE LET first == CHOOSE p \in pairs :
                      \A q \in pairs : p[1] < q[1] \/ (p[1] = q[1] /\ p[2] <= q[2])
       IN <<first>> \o SortPairs(pairs \ {first})

\* The pairs in the order of the requests.
RequestOrder(pairs) == [i \in 1..Cardinality(pairs) |-> CHOOSE p \in pairs : p[2] = i - 1]

RECURSIVE DecodeLoop(_, _, _)
\* The loop of DecodeFramesImpl over the pairs left: the outcomes it may end
\* with. a holds the decoder, the output slots, the SeekFrame targets so far,
\* last_out_frame_idx and the exception raised.
DecodeLoop(a, frame_ids, constant_frame) ==
  IF frame_ids = <<>> \/ a.raised # "none" THEN {a}
  ELSE LET frame_id == Head(frame_ids)[1]
           i == Head(frame_ids)[2]
           s1 == NumFrames(a.s)
       IN IF frame_id >= 0 /\ frame_id < s1.num_frames_
          THEN UNION {
                 DecodeLoop(
                   IF r.raised # "none" THEN [a EXCEPT !.s = r.s, !.raised = r.raised]
                   ELSE [a EXCEPT !.s = ReadNextFrame(r.s),
                                  !.out[i + 1] = IF FrameRead(r.s) = Unwritten THEN @
                                                 ELSE FrameRead(r.s),
                                  !.seeks = Append(@, frame_id),
                                  !.last_out_frame_idx = i],
                   Tail(frame_ids), constant_frame) :
                 r \in SeekFrame(s1, frame_id)}
          ELSE IF frame_id < 0
          THEN DecodeLoop([a EXCEPT !.s = s1,
                                    !.out[i + 1] = IF constant_frame = "null" THEN Garbage
                                                   ELSE ConstantFrame],
                          Tail(frame_ids), constant_frame)
          ELSE DecodeLoop([a EXCEPT !.s = s1,
                                    !.out[i + 1] = IF a.last_out_frame_idx < 0 THEN Garbage
                                                   ELSE a.out[a.last_out_frame_idx + 1]],
                          Tail(frame_ids), constant_frame)

\* FramesDecoderBase::DecodeFramesImpl with an empty out_timestamps span.
DecodeFramesImpl(s, frame_ids, boundary_type, constant_frame) ==
  LET a == [s |-> s, out |-> [i \in 1..Len(frame_ids) |-> Unwritten], seeks |-> <<>>,
            last_out_frame_idx |-> 0 - 1, raised |-> "none"]
  IN IF ~(constant_frame # "null" \/ boundary_type # "CONSTANT")
     THEN {[a EXCEPT !.raised = "constant_frame_required"]}
     ELSE DecodeLoop(a, frame_ids, constant_frame)

\* The two DecodeFrames forms after their requests are listed: each request is
\* resolved by HandleBoundary against [0, NumFrames()), the pairs are sorted and
\* handed to DecodeFramesImpl.
DecodeRequests(s0, requests, boundary_type, constant_frame) ==
  LET s1 == IF requests = <<>> THEN s0 ELSE NumFrames(s0)
      res == [i \in 1..Len(requests) |->
                HandleBoundary(boundary_type, requests[i], 0, s1.num_frames_)]
      bad == {i \in 1..Len(requests) : res[i].raised # "none"}
  IN IF bad # {}
     THEN {[s |-> s1, out |-> [i \in 1..Len(requests) |-> Unwritten], seeks |-> <<>>,
            last_out_frame_idx |-> 0 - 1,
            raised |-> res[CHOOSE i \in bad : \A j \in bad : i <= j].raised]}
     ELSE DecodeFramesImpl(s1,
                           SortPairs({<<res[i].value, i - 1>> : i \in 1..Len(requests)}),
                           boundary_type, constant_frame)

\* FramesDecoderBase::DecodeFrames(data, frame_ids, boundary_type, constant_frame, {})
DecodeFrames(s0, frame_ids, boundary_type, constant_frame) ==
  DecodeRequests(s0, frame_ids, boundary_type, constant_frame)

\* FramesDecoderBase::DecodeFrames(data, start_frame, end_frame, stride,
\* boundary_type, constant_frame, {})
DecodeFramesRange(s0, start_frame, end_frame, stride, boundary_type, constant_frame) ==
  LET num_frames == (end_frame - start_frame + stride - 1) \div stride
  IN DecodeRequests(s0, [i \in 1..num_frames |-> start_frame + (i - 1) * stride],
                    boundary_type, constant_frame)

\* The caller's padding: a behaviour of SpecDecode keeps the boundary_type and
\* the constant_frame of its first DecodeFrames call in hb and passes them to
\* every later one.
Padding(boundary_type, constant_frame) ==
  [called |-> TRUE, boundary_type |-> boundary_type, constant_frame |-> constant_frame]

DecodeCall(requests, boundary_type, constant_frame, r) ==
  /\ hb' = Padding(boundary_type, constant_frame)
  /\ dec' = r.s
  /\ last' = [called |-> TRUE, op |-> "DecodeFrames", arg |-> requests,
              boundary_type |-> boundary_type, constant_frame |-> constant_frame,
              before |-> dec.next_frame_idx_, raised |-> r.raised,
              out |-> r.out, seeks |-> r.seeks]
  /\ UNCHANGED <<src, execVars>>

\* One call of the index-list form.
DecodeFramesCall ==
  \E k \in 0..MaxRequests :
    \E frame_ids \in [1..k -> DecodeIds],
       boundary_type \in BoundaryTypes, constant_frame \in {"null", "given"} :
      /\ hb.called => hb = Padding(boundary_type, constant_frame)
      /\ \E r \in DecodeFrames(Enter(dec), frame_ids, boundary_type, constant_frame) :
           DecodeCall(frame_ids, boundary_type, constant_frame, r)

\* One call of the start / end / stride form.
DecodeFramesRangeCall ==
  \E start_frame \in (0 - 1)..0, len \in 0..MaxRangeLen, stride \in 1..MaxStride,
     boundary_type \in BoundaryTypes, constant_frame \in {"null", "given"} :
    /\ hb.called => hb = Padding(boundary_type, constant_frame)
    /\ \E r \in DecodeFramesRange(Enter(dec), start_frame, start_frame + len, stride,
                                  boundary_type, constant_frame) :
         DecodeCall([i \in 1..((len + stride - 1) \div stride) |->
                       start_frame + (i - 1) * stride],
                    boundary_type, constant_frame, r)

DecodeInit ==
  /\ src \in DecodeSources(MaxDecodeLen)
  /\ dec = Constructed /\ last = NoCall /\ hb = NoCall
  /\ exec = NoCall /\ runner = NoCall /\ workers = NoCall /\ con = NoCall /\ ctl = NoCall
DecodeNext ==
  \/ DecodeFramesCall
  \/ DecodeFramesRangeCall
  \/ BuildIndexCall
  \/ ReadNextFrameCall
SpecDecode == DecodeInit /\ [][DecodeNext]_vars

(***************************************************************************)
(* The in-memory media source. In SpecMemFile src is the MemoryVideoFile   *)
(* object (data_, size_, position_), last the last Read / Seek call and    *)
(* dec the bytes handed out since the last Seek.                            *)
(***************************************************************************)
\* The model's int is IntBits wide; size_ and position_ are int64_t and wider
\* than every value of the model. The file sizes reach past INT_MAX.
IntBits == 3
INT_MAX == 2 ^ (IntBits - 1) - 1
INT_MIN == 0 - 2 ^ (IntBits - 1)
MaxFileSize == 5   \* largest size_ of a memory file
MaxSeekOut == 2    \* how far outside [0, size_] a Seek position is drawn
Bytes == {0, 1}

\* the conversion of an int64_t value to int
ToInt(v) == ((v - INT_MIN) % (2 * (INT_MAX + 1))) + INT_MIN

\* AVERROR_EOF of libav, FFERRTAG('E', 'O', 'F', ' ')
AVERROR_EOF == 0 - 541478725

\* MemoryVideoFile(data, size): the object after its constructor
MemoryVideoFiles(n) ==
  UNION {{[data_ |-> d, size_ |-> k, position_ |-> 0] : d \in [1..k -> Bytes]} : k \in 0..n}

\* std::copy(data_ + position_, data_ + position_ + to_read, buffer): the
\* buffers the copy may fill; a byte read outside data_[0, size_) is undefined.
Copied(f, to_read) ==
  {b \in [1..to_read -> Bytes] :
     \A i \in 1..to_read :
       (f.position_ + i >= 1 /\ f.position_ + i <= f.size_) => b[i] = f.data_[f.position_ + i]}

\* MemoryVideoFile::Read: the objects it may leave, the value returned and the
\* bytes copied to the buffer. left_in_file is an int.
MemoryVideoFile_Read(f, buffer_size) ==
  LET left_in_file == ToInt(f.size_ - f.position_) IN
  IF left_in_file <= 0 THEN {[f |-> f, ret |-> AVERROR_EOF, buffer |-> <<>>]}
  ELSE LET to_read == Min(left_in_file, buffer_size) IN
       {[f |-> [f EXCEPT !.position_ = @ + to_read], ret |-> to_read, buffer |-> b] :
          b \in Copied(f, to_read)}

SeekModes == {"SEEK_SET", "AVSEEK_SIZE", "SEEK_CUR"}

\* MemoryVideoFile::Seek
MemoryVideoFile_Seek(f, new_position, mode) ==
  CASE mode = "SEEK_SET" ->
         [f |-> [f EXCEPT !.position_ = new_position], ret |-> new_position, raised |-> "none"]
    [] mode = "AVSEEK_SIZE" -> [f |-> f, ret |-> f.size_, raised |-> "none"]
    [] OTHER -> [f |-> f, ret |-> 0, raised |-> "unsupported_seeking_method"]

\* One call Read(buffer, buffer_size) with buffer_size > 0.
MemReadCall ==
  \E buffer_size \in 1..INT_MAX : \E r \in MemoryVideoFile_Read(src, buffer_size) :
    /\ src' = r.f
    /\ last' = [called |-> TRUE, op |-> "Read", arg |-> buffer_size, mode |-> "none",
                before |-> src.position_, ret |-> r.ret, raised |-> "none",
                buffer |-> r.buffer]
    /\ dec' = [dec EXCEPT !.delivered = @ \o r.buffer,
                          !.eofs = @ + (IF r.ret = AVERROR_EOF /\ @ < 2 THEN 1 ELSE 0)]
    /\ UNCHANGED <<hb, execVars>>

\* One call Seek(new_position, mode).
MemSeekCall ==
  \E mode \in SeekModes, new_position \in (0 - MaxSeekOut)..(src.size_ + MaxSeekOut) :
    LET r == MemoryVideoFile_Seek(src, new_position, mode) IN
    /\ src' = r.f
    /\ last' = [called |-> TRUE, op |-> "Seek", arg |-> new_position, mode |-> mode,
                before |-> src.position_, ret |-> r.ret, raised |-> r.raised,
                buffer |-> <<>>]
    /\ dec' = [dec EXCEPT !.sought = TRUE, !.delivered = <<>>, !.eofs = 0]
    /\ UNCHANGED <<hb, execVars>>

MemFileInit ==
  /\ src \in MemoryVideoFiles(MaxFileSize)
  /\ dec = [delivered |-> <<>>, eofs |-> 0, sought |-> FALSE]
  /\ last = NoCall /\ hb = NoCall
  /\ exec = NoCall /\ runner = NoCall /\ workers = NoCall /\ con = NoCall /\ ctl = NoCall
MemFileNext ==
  \/ MemReadCall
  \/ MemSeekCall
SpecMemFile == MemFileInit /\ [][MemFileNext]_vars

(***************************************************************************)
(* The staged executor. Executor<WorkspacePolicy, QueuePolicy> derives     *)
(* from its queue policy, so one record, exec, holds the executor's fields *)
(* and the policy's queues. exec.async tells the two classes apart:        *)
(*   FALSE - SimpleExecutor: Run() drives the three stages on the caller's *)
(*           thread (the runner), one uniform ring of buffer slots;        *)
(*   TRUE  - AsyncSeparatedPipelinedExecutor: Run() hands each stage to    *)
(*           its worker thread, one ring of slots per stage.               *)
(* Outputs / ShareOutputs / ReleaseOutputs are called by a consumer        *)
(* thread, ShutdownQueue / Shutdown by a controlling thread.               *)
(***************************************************************************)
prefetch_queue_depth == 2

MaxRuns == 3       \* Run() calls on the synchronous executor
MaxAsyncRuns == 2  \* Run() calls on the asynchronous executor
MaxOutputs == 3    \* Outputs() / ShareOutputs() calls
MaxShutdowns == 2  \* Shutdown() calls: the explicit one and the destructor's

StageSet == {"cpu", "mixed", "gpu"}
Graphs == {{"cpu"}, StageSet}
Threads == {"runner", "consumer"} \cup StageSet
NextStage(stage) == IF stage = "cpu" THEN "mixed" ELSE "gpu"
Idxs(c, m, g) == [cpu |-> c, mixed |-> m, gpu |-> g]
NoIdxs == Idxs(0 - 1, 0 - 1, 0 - 1)
OperatorError(stage) ==
  CASE stage = "cpu" -> "Error in CPU operator"
    [] stage = "mixed" -> "Error in MIXED operator"
    [] stage = "gpu" -> "Error in GPU operator"

\* QueuePolicy::GetQueueSizes: the depth of every stage's ring.
GetQueueSizes(sizes) == [s \in StageSet |-> sizes]

\* QueuePolicy::InitializeQueues: all slots start free. The uniform policy has
\* one ring, acquired by the CPU stage; the separated policy one per stage.
InitializeQueues(async, depths) ==
  [s \in StageSet |->
     IF async \/ s = "cpu" THEN [i \in 1..depths[s] |-> i - 1] ELSE <<>>]

\* Executor::SetupOutputQueuesForGraph
SetupOutputQueuesForGraph(async, stage_queue_depths_) ==
  InitializeQueues(async, stage_queue_depths_)

\* The executor after its constructor and Build, with the stage depths given.
BuiltExecutor(async, graph, stage_queue_depths_) ==
  [async |-> async, graph |-> graph,
   exec_error_ |-> FALSE, errors_ |-> <<>>,
   iteration_id_ |-> [s \in StageSet |-> 0], output_iteration_id_ |-> 0,
   stop |-> FALSE,
   free |-> SetupOutputQueuesForGraph(async, stage_queue_depths_),
   work |-> [s \in {"mixed", "gpu"} |-> <<>>],
   ready_output |-> <<>>, in_use |-> <<>>,
   buf |-> [s \in StageSet |-> [i \in 0..(stage_queue_depths_[s] - 1) |-> 0 - 1]],
   n_released |-> 0,
   recorded |-> <<>>, rethrown |-> <<>>,
   mixed_output_events_ |-> 0, gpu_output_events_ |-> 0,
   pending |-> [s \in {"mixed", "gpu"} |-> {}]]

\* Executor::SetupOutputInfo: a stage with pipeline outputs stored on the
\* device gets one event per slot of its ring, the others an empty list.
SetupOutputInfo(e, has_gpu_output) ==
  [e EXCEPT !.mixed_output_events_ =
               IF has_gpu_output.mixed THEN Cardinality(DOMAIN e.buf.mixed) ELSE 0,
            !.gpu_output_events_ =
               IF has_gpu_output.gpu THEN Cardinality(DOMAIN e.buf.gpu) ELSE 0]

\* The event list of a stage: its number of events.
OutputEvents(e, stage) ==
  CASE stage = "mixed" -> e.mixed_output_events_
    [] stage = "gpu" -> e.gpu_output_events_
    [] OTHER -> 0

\* The event of the stage's slot is recorded after the work the stage issued
\* to the device; pending holds the slots whose event has not fired yet.
RecordEvent(e, stage, slot) ==
  IF OutputEvents(e, stage) > 0 THEN [e EXCEPT !.pending[stage] = @ \cup {slot}] ELSE e

\* The stages whose device work for the slots idxs has not completed.
Unfinished(e, idxs) == {s \in {"mixed", "gpu"} : idxs[s] \in e.pending[s]}

\* ShareOutputsImpl going on without waiting for the output events.
EventReady_NoWait(e, idxs) == TRUE

\* The wait of ShareOutputsImpl for the output events of the slots it shares.
EventReady(e, idxs) == Unfinished(e, idxs) = {}

\* The constructor with every stage one slot deeper than the depth asked for.
Executor_DeeperQueues(async, graph) ==
  BuiltExecutor(async, graph, GetQueueSizes(prefetch_queue_depth + 1))

\* Executor::Executor with the default prefetch_queue_depth, then Build.
Executor(async, graph) ==
  BuiltExecutor(async, graph, GetQueueSizes(prefetch_queue_depth))

\* QueuePolicy::SignalStop / IsStopSignaled
SignalStop(e) == [e EXCEPT !.stop = TRUE]

\* ShutdownQueue that leaves the queues unsignaled.
ShutdownQueue_NoSignal(e) == e

\* Executor::ShutdownQueue
ShutdownQueue(e) == SignalStop(e)

\* Executor::HandleError: the error is appended under errors_mutex_, then the
\* flag is set and the queues are stopped. recorded keeps every error ever
\* appended, in the order of the appends.
HandleError(e, error) ==
  ShutdownQueue([e EXCEPT !.errors_ = Append(@, error), !.exec_error_ = TRUE,
                          !.recorded = Append(@, error)])

\* RethrowError taking the newest entry of the list (errors_.back()).
RethrowError_Newest(e) ==
  IF e.errors_ = <<>>
  THEN [e |-> e,
        raised |-> IF e.stop /\ ~e.exec_error_ THEN "Stop signaled" ELSE "Unknown error"]
  ELSE [e |-> [e EXCEPT !.errors_ = SubSeq(@, 1, Len(@) - 1),
                        !.rethrown = Append(@, e.errors_[Len(e.errors_)])],
        raised |-> e.errors_[Len(e.errors_)]]

\* RethrowError returning to its caller when the list is empty.
RethrowError_ReturnsWhenEmpty(e) ==
  IF e.errors_ = <<>>
  THEN [e |-> e, raised |-> "none"]
  ELSE [e |-> [e EXCEPT !.errors_ = Tail(@), !.rethrown = Append(@, Head(e.errors_))],
        raised |-> Head(e.errors_)]

\* Executor::RethrowError, under errors_mutex_ from its first statement to its
\* last: the error raised and the executor afterwards. rethrown keeps the
\* recorded errors raised so far, in the order they were raised.
RethrowError(e) ==
  IF e.errors_ = <<>>
  THEN [e |-> e,
        raised |-> IF e.stop /\ ~e.exec_error_ THEN "Stop signaled" ELSE "Unknown error"]
  ELSE [e |-> [e EXCEPT !.errors_ = Tail(@), !.rethrown = Append(@, Head(e.errors_))],
        raised |-> Head(e.errors_)]

\* QueuePolicy::ReleaseIdxs: the stage's indices are handed to the next stage;
\* the separated policy frees the CPU slot once the Mixed stage has consumed it.
ReleaseIdxs(e, stage, idxs) ==
  LET e1 == IF e.async /\ stage = "mixed"
            THEN [e EXCEPT !.free.cpu = Append(@, idxs.cpu)] ELSE e
  IN IF stage = "gpu" THEN e1
     ELSE [e1 EXCEPT !.work[NextStage(stage)] = Append(@, idxs)]

\* QueuePolicy::QueueOutputIdxs
QueueOutputIdxs(e, idxs) == [e EXCEPT !.ready_output = Append(@, idxs)]

\* QueuePolicy::ReleaseOutputIdxs: the oldest slot in use goes back to the free
\* queue; nothing happens if no slot is in use.
ReleaseOutputIdxs(e) ==
  IF e.in_use = <<>> THEN e
  ELSE LET processed == Head(e.in_use) IN
       [e EXCEPT !.in_use = Tail(@), !.n_released = @ + 1,
                 !.free = IF e.async
                          THEN [@ EXCEPT !.mixed = Append(@, processed.mixed),
                                         !.gpu = Append(@, processed.gpu)]
                          ELSE [@ EXCEPT !.cpu = Append(@, processed.cpu)]]

\* ReleaseOutputs that gives no buffer back.
ReleaseOutputs_Nothing(e) == e

\* Executor::ReleaseOutputs
ReleaseOutputs(e) == ReleaseOutputIdxs(e)

\* The wait of QueuePolicy::AcquireIdxs a stage sits in: for work of the
\* previous stage, or for a free slot of its own. Stop ends every wait.
CanAcquire(e, t) ==
  \/ e.stop
  \/ t.pc = "acquire_prev" /\ e.work[t.stage] # <<>>
  \/ t.pc = "acquire_free" /\ e.free[t.stage] # <<>>

\* The wait of QueuePolicy::UseOutputIdxs, with the check ShareOutputsImpl
\* makes before it.
CanShare(e) == e.exec_error_ \/ e.stop \/ e.ready_output # <<>>

Skipped(e, t) == [e |-> e, t |-> [t EXCEPT !.pc = "skipped", !.idxs = NoIdxs]]

\* Run<stage>() after AcquireIdxs: with an error flagged the stage passes its
\* indices on and returns, else Run<stage>Impl(<stage>_iteration_id_++) starts.
BeginImpl(e, t, idxs) ==
  IF e.exec_error_ THEN Skipped(ReleaseIdxs(e, t.stage, idxs), t)
  ELSE [e |-> [e EXCEPT !.iteration_id_[t.stage] = @ + 1],
        t |-> [t EXCEPT !.pc = "run_impl", !.idxs = idxs,
                        !.it = e.iteration_id_[t.stage]]]

\* QueuePolicy::AcquireIdxs once its wait is over: invalid indices after a
\* stop, else the front of the queue waited for.
AcquireIdxs(e, t) ==
  IF e.stop THEN Skipped(e, t)
  ELSE IF t.pc = "acquire_prev"
  THEN LET idxs == Head(e.work[t.stage])
           e1 == [e EXCEPT !.work[t.stage] = Tail(@)]
       IN IF e.async
          THEN [e |-> e1, t |-> [t EXCEPT !.pc = "acquire_free", !.idxs = idxs]]
          ELSE BeginImpl(e1, t, idxs)
  ELSE LET slot == Head(e.free[t.stage])
           e1 == [e EXCEPT !.free[t.stage] = Tail(@)]
       IN BeginImpl(e1, t, IF e.async THEN [t.idxs EXCEPT ![t.stage] = slot]
                                      ELSE Idxs(slot, slot, slot))

\* Run<stage>Impl and the rest of Run<stage>: the stage's operators run, a
\* failing one is recorded by HandleError; the indices are released and the GPU
\* stage queues the outputs.
RunImpl(e, t, fail) ==
  LET e1 == IF fail THEN HandleError(e, OperatorError(t.stage))
            ELSE RecordEvent([e EXCEPT !.buf[t.stage][t.idxs[t.stage]] = t.it],
                             t.stage, t.idxs[t.stage])
      e2 == ReleaseIdxs(e1, t.stage, t.idxs)
      e3 == IF t.stage = "gpu" THEN QueueOutputIdxs(e2, t.idxs) ELSE e2
  IN [e |-> e3, t |-> [t EXCEPT !.pc = "ran", !.idxs = NoIdxs]]

Failures(e, t) == IF t.stage \in e.graph THEN BOOLEAN ELSE {FALSE}

\* Executor::ShareOutputsImpl once its wait is over.
ShareOutputsImpl(e) ==
  IF e.exec_error_ \/ e.stop
  THEN LET r == RethrowError(e)
       IN [e |-> r.e, raised |-> r.raised, data |-> 0 - 1, shared |-> NoIdxs]
  ELSE LET idxs == Head(e.ready_output) IN
       [e |-> [e EXCEPT !.ready_output = Tail(@), !.in_use = Append(@, idxs)],
        raised |-> "none", data |-> e.buf.gpu[idxs.gpu], shared |-> idxs]

\* The catch blocks of AsyncSeparatedPipelinedExecutor::Outputs.
OutputsCatch(e) == SignalStop([e EXCEPT !.exec_error_ = TRUE])

IdleWorker(w) ==
  [pc |-> "idle", stage |-> w, idxs |-> NoIdxs, it |-> 0 - 1,
   tasks |-> 0, running |-> TRUE, errors |-> <<>>]

\* WorkerThread::CheckForErrors: the oldest error a task of the thread has
\* thrown is taken from the thread's list and raised.
ThreadCheckForErrors(t) ==
  IF t.errors = <<>> THEN [t |-> t, raised |-> "none"]
  ELSE [t |-> [t EXCEPT !.errors = Tail(@)], raised |-> Head(t.errors)]

\* AsyncSeparatedPipelinedExecutor::CheckForErrors: the CPU, the Mixed and the
\* GPU worker are checked in this order; the first error found is raised.
CheckForErrors(ws) ==
  LET cpu == ThreadCheckForErrors(ws.cpu)
      mixed == ThreadCheckForErrors(ws.mixed)
      gpu == ThreadCheckForErrors(ws.gpu)
  IN IF cpu.raised # "none"
     THEN [workers |-> [ws EXCEPT !.cpu = cpu.t], raised |-> cpu.raised]
     ELSE IF mixed.raised # "none"
     THEN [workers |-> [ws EXCEPT !.mixed = mixed.t], raised |-> mixed.raised]
     ELSE [workers |-> [ws EXCEPT !.gpu = gpu.t], raised |-> gpu.raised]
NoOutcome == [raised |-> "none", exec_error_ |-> FALSE]

ExecInit ==
  /\ hb = NoCall /\ src = [packets |-> <<>>, nb_frames |-> 0]
  /\ dec = NoCall /\ last = NoCall
  /\ exec \in {Executor(FALSE, graph) : graph \in Graphs} \cup {Executor(TRUE, StageSet)}
  /\ runner = [pc |-> "idle", stage |-> "cpu", idxs |-> NoIdxs, it |-> 0 - 1,
               calls |-> 0, result |-> "none"]
  /\ workers = [w \in StageSet |-> IdleWorker(w)]
  /\ con = [pc |-> "idle", api |-> "none", calls |-> 0, result |-> "none",
            data |-> 0 - 1, unfinished |-> {}]
  /\ ctl = [pc |-> "idle", invoked |-> FALSE, shutdowns |-> 0, blocked_at_stop |-> {},
            unblocked_with |-> [t \in Threads |-> NoOutcome]]

\* The threads that sit in a wait that cannot end in this state.
BlockedThreads ==
  {t \in Threads :
     \/ t = "runner" /\ runner.pc \in {"acquire_prev", "acquire_free"}
                     /\ ~CanAcquire(exec, runner)
     \/ t = "consumer" /\ con.pc = "share" /\ ~CanShare(exec)
     \/ t \in StageSet /\ workers[t].pc \in {"acquire_prev", "acquire_free"}
                       /\ ~CanAcquire(exec, workers[t])}

\* Bookkeeping of the stop signal: the threads blocked when the controlling
\* thread first invoked ShutdownQueue / Shutdown, and how each left its wait.
Invoked(c) ==
  IF c.invoked THEN c
  ELSE [c EXCEPT !.invoked = TRUE, !.blocked_at_stop = BlockedThreads]
Unblocked(c, t, raised) ==
  IF t \in c.blocked_at_stop /\ c.unblocked_with[t] = NoOutcome
  THEN [c EXCEPT !.unblocked_with[t] =
                   [raised |-> raised, exec_error_ |-> exec.exec_error_]]
  ELSE c

\* Every stage starting with the wait for a free slot of its own.
FirstWait_NoUpstreamWait(w) == "acquire_free"

FirstWait(w) == IF w = "cpu" THEN "acquire_free" ELSE "acquire_prev"

\* WorkerThread's loop between two tasks: a running worker starts the next
\* queued task, a worker told to stop leaves its loop.
WorkerLoop(t) ==
  IF t.running /\ t.tasks > 0
  THEN [t EXCEPT !.pc = FirstWait(t.stage), !.tasks = @ - 1]
  ELSE [t EXCEPT !.pc = "idle"]

\* WorkerThread::DoWork: the task is queued; an idle worker starts it.
DoWork(t) ==
  LET q == [t EXCEPT !.tasks = @ + 1] IN IF t.pc = "idle" THEN WorkerLoop(q) ELSE q

\* Executor::Run: RunCPU, RunMixed, RunGPU. The asynchronous executor queues
\* one task per stage worker and returns.
RunCall ==
  /\ runner.pc = "idle"
  /\ runner.calls < (IF exec.async THEN MaxAsyncRuns ELSE MaxRuns)
  /\ IF exec.async
     THEN /\ runner' = [runner EXCEPT !.calls = @ + 1, !.result = "ok"]
          /\ workers' = [w \in StageSet |-> DoWork(workers[w])]
     ELSE /\ runner' = [runner EXCEPT !.calls = @ + 1, !.result = "pending",
                                      !.pc = "acquire_free", !.stage = "cpu"]
          /\ UNCHANGED workers
  /\ UNCHANGED <<exec, con, ctl, hb, decVars>>

\* Run() after one stage of the runner: the next stage, or the end of the call,
\* where a flagged error or a stop is re-raised.
RunnerAdvance(r) ==
  IF r.t.pc \notin {"ran", "skipped"} THEN r
  ELSE IF r.t.pc = "ran" /\ r.t.stage # "gpu"
  THEN [e |-> r.e, t |-> [r.t EXCEPT !.pc = "acquire_prev", !.stage = NextStage(@)]]
  ELSE IF r.e.exec_error_ \/ r.e.stop
  THEN LET x == RethrowError(r.e) IN
       [e |-> x.e, t |-> [r.t EXCEPT !.pc = "idle", !.result = x.raised]]
  ELSE [e |-> r.e, t |-> [r.t EXCEPT !.pc = "idle", !.result = "ok"]]

RunnerStep(r) ==
  LET a == RunnerAdvance(r)
  IN /\ exec' = a.e
     /\ runner' = a.t
     /\ ctl' = IF runner.pc = "run_impl" THEN ctl
               ELSE Unblocked(ctl, "runner",
                              IF a.t.pc = "idle" THEN a.t.result ELSE "none")
     /\ UNCHANGED <<workers, con, hb, decVars>>

RunnerAcquire ==
  /\ runner.pc \in {"acquire_prev", "acquire_free"} /\ CanAcquire(exec, runner)
  /\ RunnerStep(AcquireIdxs(exec, runner))

RunnerRunImpl ==
  /\ runner.pc = "run_impl"
  /\ \E fail \in Failures(exec, runner) : RunnerStep(RunImpl(exec, runner, fail))

WorkerStep(w, r) ==
  LET done == r.t.pc \in {"ran", "skipped"}
  IN /\ exec' = r.e
     /\ workers' = [workers EXCEPT ![w] = IF done THEN WorkerLoop(r.t) ELSE r.t]
     /\ ctl' = IF workers[w].pc = "run_impl" THEN ctl
               ELSE Unblocked(ctl, w, IF r.t.pc = "skipped" THEN "returned" ELSE "acquired")
     /\ UNCHANGED <<runner, con, hb, decVars>>

WorkerAcquire(w) ==
  /\ workers[w].pc \in {"acquire_prev", "acquire_free"} /\ CanAcquire(exec, workers[w])
  /\ WorkerStep(w, AcquireIdxs(exec, workers[w]))

WorkerRunImpl(w) ==
  /\ workers[w].pc = "run_impl"
  /\ \E fail \in Failures(exec, workers[w]) :
       WorkerStep(w, RunImpl(exec, workers[w], fail))

\* Outputs up to the wait. The asynchronous executor starts with the error
\* check of its workers, outside its try block: an error found there is raised
\* to the caller as it is. Then Executor::Outputs: ReleaseOutputs and
\* ShareOutputsImpl(ws, output_iteration_id_++).
OutputsCall ==
  /\ con.pc = "idle" /\ con.calls < MaxOutputs
  /\ LET check == CheckForErrors(workers)
     IN IF exec.async /\ check.raised # "none"
        THEN /\ workers' = check.workers
             /\ exec' = exec
             /\ con' = [con EXCEPT !.api = "Outputs", !.calls = @ + 1,
                                   !.result = check.raised, !.data = 0 - 1]
        ELSE /\ workers' = workers
             /\ exec' = [ReleaseOutputs(exec) EXCEPT !.output_iteration_id_ = @ + 1]
             /\ con' = [con EXCEPT !.pc = "share", !.api = "Outputs", !.calls = @ + 1,
                                   !.result = "pending"]
  /\ UNCHANGED <<runner, ctl, hb, decVars>>

\* Executor::ShareOutputs up to the wait.
ShareOutputsCall ==
  /\ con.pc = "idle" /\ con.calls < MaxOutputs
  /\ exec' = [exec EXCEPT !.output_iteration_id_ = @ + 1]
  /\ con' = [con EXCEPT !.pc = "share", !.api = "ShareOutputs", !.calls = @ + 1,
                        !.result = "pending"]
  /\ UNCHANGED <<runner, workers, ctl, hb, decVars>>

\* Executor::ReleaseOutputs
ReleaseOutputsCall ==
  /\ con.pc = "idle" /\ exec.in_use # <<>>
  /\ exec' = ReleaseOutputs(exec)
  /\ UNCHANGED <<con, runner, workers, ctl, hb, decVars>>

\* The rest of Outputs / ShareOutputs: the outputs are shared or an error is
\* raised; the asynchronous Outputs flags every error and stops the queues.
\* Outputs whose events have not fired are waited for before the call returns;
\* unfinished keeps the stages whose device work was outstanding at the return.
ShareOutputsReturn ==
  /\ con.pc = "share" /\ CanShare(exec)
  /\ LET r == ShareOutputsImpl(exec)
         caught == r.raised # "none" /\ exec.async /\ con.api = "Outputs"
         result == IF r.raised = "none" THEN "data" ELSE r.raised
     IN IF r.raised = "none" /\ ~EventReady(r.e, r.shared)
        THEN /\ exec' = r.e
             /\ con' = [con EXCEPT !.pc = "sync"]
             /\ ctl' = ctl
        ELSE /\ exec' = IF caught THEN OutputsCatch(r.e) ELSE r.e
             /\ con' = [con EXCEPT !.pc = "idle", !.result = result,
                                   !.data = r.data,
                                   !.unfinished = Unfinished(r.e, r.shared)]
             /\ ctl' = Unblocked(ctl, "consumer", result)
  /\ UNCHANGED <<runner, workers, hb, decVars>>

\* Outputs / ShareOutputs returning the outputs once their events have fired.
OutputsSync ==
  /\ con.pc = "sync"
  /\ LET shared == exec.in_use[Len(exec.in_use)]
     IN /\ EventReady(exec, shared)
        /\ con' = [con EXCEPT !.pc = "idle", !.result = "data",
                              !.data = exec.buf.gpu[shared.gpu],
                              !.unfinished = Unfinished(exec, shared)]
  /\ UNCHANGED <<exec, runner, workers, ctl, hb, decVars>>

\* The device finishes the work of one stage for one slot: the slot's event
\* fires.
DeviceComplete ==
  /\ \E s \in {"mixed", "gpu"} : \E slot \in exec.pending[s] :
       exec' = [exec EXCEPT !.pending[s] = @ \ {slot}]
  /\ UNCHANGED <<runner, workers, con, ctl, hb, decVars>>

\* Executor::ShutdownQueue, called by the controlling thread.
ShutdownQueueCall ==
  /\ ctl.pc = "idle" /\ ~ctl.invoked
  /\ exec' = ShutdownQueue(exec)
  /\ ctl' = Invoked(ctl)
  /\ UNCHANGED <<runner, workers, con, hb, decVars>>

\* ForceStop that leaves the worker running.
ForceStop_Ignored(t) == t

\* WorkerThread::ForceStop: the worker is told to leave its loop.
ForceStop(t) == [t EXCEPT !.running = FALSE]

\* AsyncSeparatedPipelinedExecutor::Shutdown up to the joins: ShutdownQueue,
\* ForceStop of the three workers, SyncDevice. It is called explicitly and
\* once more by the destructor.
ShutdownCall ==
  /\ exec.async /\ ctl.pc \in {"idle", "done"} /\ ctl.shutdowns < MaxShutdowns
  /\ exec' = ShutdownQueue(exec)
  /\ workers' = [w \in StageSet |-> ForceStop(workers[w])]
  /\ ctl' = [Invoked(ctl) EXCEPT !.pc = "joining", !.shutdowns = @ + 1]
  /\ UNCHANGED <<runner, con, hb, decVars>>

\* The rest of Shutdown: the three workers are joined; a worker's loop has ended
\* once it was told to stop and runs no task.
ShutdownJoin ==
  /\ ctl.pc = "joining"
  /\ \A w \in StageSet : workers[w].pc = "idle" /\ ~workers[w].running
  /\ ctl' = [ctl EXCEPT !.pc = "done"]
  /\ UNCHANGED <<exec, runner, workers, con, hb, decVars>>

ExecNext ==
  \/ RunCall
  \/ RunnerAcquire
  \/ RunnerRunImpl
  \/ \E w \in StageSet : WorkerAcquire(w)
  \/ \E w \in StageSet : WorkerRunImpl(w)
  \/ OutputsCall
  \/ ShareOutputsCall
  \/ ReleaseOutputsCall
  \/ ShareOutputsReturn
  \/ ShutdownQueueCall
  \/ ShutdownCall
  \/ ShutdownJoin

SpecExec == ExecInit /\ [][ExecNext]_vars

\* The executors whose pipeline outputs are produced on the device by the GPU
\* stage, and by the Mixed stage or not.
DeviceInit ==
  /\ hb = NoCall /\ src = [packets |-> <<>>, nb_frames |-> 0]
  /\ dec = NoCall /\ last = NoCall
  /\ exec \in {SetupOutputInfo(Executor(async, StageSet), [mixed |-> m, gpu |-> TRUE]) :
                 async \in BOOLEAN, m \in BOOLEAN}
  /\ runner = [pc |-> "idle", stage |-> "cpu", idxs |-> NoIdxs, it |-> 0 - 1,
               calls |-> 0, result |-> "none"]
  /\ workers = [w \in StageSet |-> IdleWorker(w)]
  /\ con = [pc |-> "idle", api |-> "none", calls |-> 0, result |-> "none",
            data |-> 0 - 1, unfinished |-> {}]
  /\ ctl = [pc |-> "idle", invoked |-> FALSE, shutdowns |-> 0, blocked_at_stop |-> {},
            unblocked_with |-> [t \in Threads |-> NoOutcome]]

DeviceNext ==
  \/ ExecNext
  \/ OutputsSync
  \/ DeviceComplete

SpecDevice == DeviceInit /\ [][DeviceNext]_vars

\* Every thread that can take a step of its own eventually takes it.
ExecFairness ==
  /\ WF_vars(RunnerAcquire) /\ WF_vars(RunnerRunImpl) /\ WF_vars(ShareOutputsReturn)
  /\ \A w \in StageSet :
       /\ WF_vars(WorkerAcquire(w)) /\ WF_vars(WorkerRunImpl(w))

SpecExecFair == SpecExec /\ ExecFairness

\* Fair scheduling with the controlling thread returning from a join that can
\* return.
SpecShutdownFair == SpecExecFair /\ WF_vars(ShutdownJoin)

(***************************************************************************)
(* AsyncSeparatedPipelinedExecutor::Shutdown statement by statement. While *)
(* a Shutdown call is under way ctl.pc names the statement the controlling *)
(* thread executes next; the stage workers, the consumer and the device    *)
(* take their steps between any two statements.                            *)
(***************************************************************************)
\* Shutdown with the device synchronized before the GPU worker is told to stop.
ShutdownStatements_SyncBeforeStop ==
  <<"ShutdownQueue", "ForceStop cpu", "ForceStop mixed", "SyncDevice",
    "ForceStop gpu", "Shutdown cpu", "Shutdown mixed", "Shutdown gpu">>

\* The statements of Shutdown, in program order.
ShutdownStatements ==
  <<"ShutdownQueue", "ForceStop cpu", "ForceStop mixed", "ForceStop gpu",
    "SyncDevice", "Shutdown cpu", "Shutdown mixed", "Shutdown gpu">>

ForceStopOf(w) ==
  CASE w = "cpu" -> "ForceStop cpu"
    [] w = "mixed" -> "ForceStop mixed"
    [] w = "gpu" -> "ForceStop gpu"

JoinOf(w) ==
  CASE w = "cpu" -> "Shutdown cpu"
    [] w = "mixed" -> "Shutdown mixed"
    [] w = "gpu" -> "Shutdown gpu"

\* The statement after st, or the return of Shutdown.
After(st) ==
  LET i == CHOOSE k \in 1..Len(ShutdownStatements) : ShutdownStatements[k] = st
  IN IF i = Len(ShutdownStatements) THEN "done" ELSE ShutdownStatements[i + 1]

\* Shutdown is called, explicitly or by the destructor.
ShutdownEnter ==
  /\ exec.async /\ ctl.pc \in {"idle", "done"} /\ ctl.shutdowns < MaxShutdowns
  /\ ctl' = [Invoked(ctl) EXCEPT !.pc = ShutdownStatements[1], !.shutdowns = @ + 1]
  /\ UNCHANGED <<exec, workers, runner, con, hb, decVars>>

\* ShutdownQueue()
ShutdownSignal ==
  /\ ctl.pc = "ShutdownQueue"
  /\ exec' = ShutdownQueue(exec)
  /\ ctl' = [ctl EXCEPT !.pc = After("ShutdownQueue")]
  /\ UNCHANGED <<workers, runner, con, hb, decVars>>

\* <stage>_thread_.ForceStop()
ShutdownForceStop(w) ==
  /\ ctl.pc = ForceStopOf(w)
  /\ workers' = [workers EXCEPT ![w] = ForceStop(@)]
  /\ ctl' = [ctl EXCEPT !.pc = After(ForceStopOf(w))]
  /\ UNCHANGED <<exec, runner, con, hb, decVars>>

\* SyncDevice(): returns once the device has no outstanding work.
ShutdownSyncDevice ==
  /\ ctl.pc = "SyncDevice"
  /\ \A s \in {"mixed", "gpu"} : exec.pending[s] = {}
  /\ ctl' = [ctl EXCEPT !.pc = After("SyncDevice")]
  /\ UNCHANGED <<exec, workers, runner, con, hb, decVars>>

\* <stage>_thread_.Shutdown(): the worker is joined; the join returns once the
\* worker's loop has ended.
ShutdownWorker(w) ==
  /\ ctl.pc = JoinOf(w)
  /\ workers[w].pc = "idle" /\ ~workers[w].running
  /\ ctl' = [ctl EXCEPT !.pc = After(JoinOf(w))]
  /\ UNCHANGED <<exec, workers, runner, con, hb, decVars>>

ShutdownInit ==
  /\ hb = NoCall /\ src = [packets |-> <<>>, nb_frames |-> 0]
  /\ dec = NoCall /\ last = NoCall
  /\ exec \in {SetupOutputInfo(Executor(TRUE, StageSet), [mixed |-> m, gpu |-> TRUE]) :
                 m \in BOOLEAN}
  /\ runner = [pc |-> "idle", stage |-> "cpu", idxs |-> NoIdxs, it |-> 0 - 1,
               calls |-> 0, result |-> "none"]
  /\ workers = [w \in StageSet |-> IdleWorker(w)]
  /\ con = [pc |-> "idle", api |-> "none", calls |-> 0, result |-> "none",
            data |-> 0 - 1, unfinished |-> {}]
  /\ ctl = [pc |-> "idle", invoked |-> FALSE, shutdowns |-> 0, blocked_at_stop |-> {},
            unblocked_with |-> [t \in Threads |-> NoOutcome]]

ShutdownNext ==
  \/ RunCall
  \/ \E w \in StageSet : WorkerAcquire(w)
  \/ \E w \in StageSet : WorkerRunImpl(w)
  \/ OutputsCall
  \/ ShareOutputsReturn
  \/ OutputsSync
  \/ DeviceComplete
  \/ ShutdownEnter
  \/ ShutdownSignal
  \/ \E w \in StageSet : ShutdownForceStop(w)
  \/ ShutdownSyncDevice
  \/ \E w \in StageSet : ShutdownWorker(w)

SpecShutdown == ShutdownInit /\ [][ShutdownNext]_vars

(***************************************************************************)
(* The asynchronous executor with worker tasks that throw. A stage records *)
(* the failures of its operators through HandleError; an exception that    *)
(* leaves the task itself is kept by the worker thread, which ends its     *)
(* loop, and is raised by the thread's CheckForErrors.                     *)
(***************************************************************************)
TaskError(w) ==
  CASE w = "cpu" -> "Error in thread CPU executor"
    [] w = "mixed" -> "Error in thread Mixed executor"
    [] w = "gpu" -> "Error in thread GPU executor"

\* WorkerThread's loop when the task it has just started throws: the error is
\* kept and the loop is left.
WorkerTaskThrows(w) ==
  /\ workers[w].pc = FirstWait(w)
  /\ workers' = [workers EXCEPT ![w] = [@ EXCEPT !.pc = "idle", !.running = FALSE,
                                                 !.errors = Append(@, TaskError(w))]]
  /\ UNCHANGED <<exec, runner, con, ctl, hb, decVars>>

WorkerErrorInit ==
  /\ hb = NoCall /\ src = [packets |-> <<>>, nb_frames |-> 0]
  /\ dec = NoCall /\ last = NoCall
  /\ exec = Executor(TRUE, StageSet)
  /\ runner = [pc |-> "idle", stage |-> "cpu", idxs |-> NoIdxs, it |-> 0 - 1,
               calls |-> 0, result |-> "none"]
  /\ workers = [w \in StageSet |-> IdleWorker(w)]
  /\ con = [pc |-> "idle", api |-> "none", calls |-> 0, result |-> "none",
            data |-> 0 - 1, unfinished |-> {}]
  /\ ctl = [pc |-> "idle", invoked |-> FALSE, shutdowns |-> 0, blocked_at_stop |-> {},
            unblocked_with |-> [t \in Threads |-> NoOutcome]]

WorkerErrorNext ==
  \/ RunCall
  \/ \E w \in StageSet : WorkerAcquire(w)
  \/ \E w \in StageSet : WorkerRunImpl(w)
  \/ \E w \in StageSet : WorkerTaskThrows(w)
  \/ OutputsCall
  \/ ShareOutputsReturn
  \/ ShutdownQueueCall

SpecWorkerError == WorkerErrorInit /\ [][WorkerErrorNext]_vars

(***************************************************************************)
(* Claims.                                                                 *)
(***************************************************************************)
\* C1: a SeekFrame(t) call that returns leaves next_frame_idx_ = t, from every
\* reachable decoder state.
C1_SeekFrameReachesTarget ==
  (last.called /\ last.op = "SeekFrame" /\ last.raised = "none")
    => dec.next_frame_idx_ = last.arg

\* C2: on the synchronous executor with a CPU-only graph and queue depth 2, a
\* Run() waiting for a buffer slot finds one exactly while fewer than 2
\* iterations are produced and unreleased (so the second Run() is not blocked by
\* the unconsumed first, the third waits for a release), and never more than 2
\* produced-but-unreleased iterations exist.
C2_BackPressureAtDepth ==
  (~exec.async /\ exec.graph = {"cpu"})
    => LET unreleased == exec.iteration_id_.cpu - exec.n_released IN
       /\ unreleased <= 2
       /\ (runner.pc = "acquire_free" /\ ~exec.stop)
            => ((exec.free.cpu = <<>>) <=> (unreleased = 2))

C2_Witness ==
  /\ ~exec.async /\ exec.graph = {"cpu"} /\ ~exec.stop
  /\ exec.iteration_id_.cpu = 2 /\ Len(exec.ready_output) = 2
  /\ con.calls = 0 /\ exec.n_released = 0
  /\ runner.calls = 3 /\ runner.pc = "acquire_free" /\ exec.free.cpu = <<>>

\* How a thread leaves its wait after a stop when no error is involved: a stage
\* worker returns from its stage, a Run() or Outputs() call raises the stop error.
StopOutcome(t) == IF t \in StageSet THEN "returned" ELSE "Stop signaled"

\* C3 as stated: a Run() call, an Outputs() call or a stage worker that is blocked
\* on a queue when the stop is invoked is eventually unblocked, and the Run() or
\* Outputs() call ends by raising the stop-indicating error.
C3_BlockedPartyRaisesStop ==
  \A t \in Threads :
    (t \in ctl.blocked_at_stop) ~> (ctl.unblocked_with[t].raised = StopOutcome(t))

\* C3 amended: such a party is eventually unblocked; a worker returns from its
\* stage and a Run() or Outputs() call ends by raising an error, which is the
\* stop-indicating error whenever no error was flagged (exec_error_ false) when
\* the call woke up.
C3_BlockedPartyUnblocked ==
  \A t \in Threads :
    (t \in ctl.blocked_at_stop)
      ~> /\ ctl.unblocked_with[t].raised \notin {"none", "ok", "data", "acquired"}
         /\ ~ctl.unblocked_with[t].exec_error_
              => ctl.unblocked_with[t].raised = StopOutcome(t)

C3_Witness ==
  /\ exec.async
  /\ "consumer" \in ctl.blocked_at_stop
  /\ ctl.unblocked_with["consumer"].raised = "Stop signaled"
  /\ \E w \in StageSet : /\ w \in ctl.blocked_at_stop
                         /\ ctl.unblocked_with[w].raised = "returned"


InRange == hb.called /\ hb.frame_id >= hb.roi_start /\ hb.frame_id < hb.roi_end
OutOfRange == hb.called /\ ~(hb.frame_id >= hb.roi_start /\ hb.frame_id < hb.roi_end)

\* C4: for CLAMP, REFLECT_1001 and REFLECT_101, HandleBoundary returns a value r
\* with roi_start <= r < roi_end, for every index and every non-empty range.
C4_ResultInRange ==
  (hb.called /\ hb.boundary_type \in {"CLAMP", "REFLECT_1001", "REFLECT_101"})
    => /\ hb.res.raised = "none"
       /\ hb.roi_start <= hb.res.value /\ hb.res.value < hb.roi_end

C6_ConstantIsMinusOne ==
  (OutOfRange /\ hb.boundary_type = "CONSTANT")
    => (hb.res.raised = "none" /\ hb.res.value = 0 - 1)

C6_Witness ==
  /\ OutOfRange /\ hb.boundary_type = "CONSTANT" /\ hb.roi_start > 1
  /\ hb.frame_id >= hb.roi_end /\ hb.res = Returned(0 - 1)

\* C7 as stated: for every boundary type value, the five named ones and any other,
\* an index inside the range comes back unchanged and no error is raised.
C7_InRangeUnchangedEveryType ==
  InRange => (hb.res.raised = "none" /\ hb.res.value = hb.frame_id)

\* C7 amended: for the five named boundary types an index inside the range comes
\* back unchanged and no error is raised; for any other value of the enumeration
\* HandleBoundary raises the invalid-boundary-type error, inside the range too.
C7_InRangeUnchangedNamedTypes ==
  /\ (InRange /\ hb.boundary_type # "OTHER")
       => (hb.res.raised = "none" /\ hb.res.value = hb.frame_id)
  /\ (hb.called /\ hb.boundary_type = "OTHER")
       => hb.res.raised = "invalid_boundary_type"

C7_Witness ==
  /\ InRange /\ hb.boundary_type = "ISOLATED" /\ hb.frame_id > hb.roi_start
  /\ hb.res = Returned(hb.frame_id)

Built == last.called /\ last.op = "BuildIndex" /\ last.raised = "none"

\* The 0-based positions of two packets of the stream stored against their
\* timestamp order.
StoredOutOfOrder ==
  \E i, j \in 1..Len(src.packets) :
    /\ i < j
    /\ src.packets[i].stream = "video" /\ src.packets[j].stream = "video"
    /\ EntryPts(src.packets[j]) >= 0
    /\ EntryPts(src.packets[i]) > EntryPts(src.packets[j])

\* C8: after a successful BuildIndex the entry at the last position of the sorted
\* index has is_flush_frame = true.
C8_LastEntryIsFlush ==
  Built => dec.index_[Len(dec.index_)].is_flush_frame

\* Position k (0-based) is the nearest keyframe at or before position i.
NearestKeyframe(index, i, k) ==
  /\ 0 <= k /\ k <= i
  /\ index[k + 1].is_keyframe
  /\ \A m \in (k + 1)..i : ~index[m + 1].is_keyframe

\* C9 as stated: after a successful BuildIndex, last_keyframe_id of every entry is
\* the position of the nearest keyframe at or before the entry.
C9_EveryEntryNearestKeyframe ==
  Built => \A i \in 0..(Len(dec.index_) - 1) :
             NearestKeyframe(dec.index_, i, dec.index_[i + 1].last_keyframe_id)

\* C9 amended: after a successful BuildIndex, last_keyframe_id of every entry that
\* has a keyframe at or before its position is the position of the nearest such
\* keyframe.
C9_NearestKeyframeWhereOneExists ==
  Built => \A i \in 0..(Len(dec.index_) - 1) :
             (\E k \in 0..i : dec.index_[k + 1].is_keyframe)
               => NearestKeyframe(dec.index_, i, dec.index_[i + 1].last_keyframe_id)

C9_Witness ==
  /\ Built /\ Len(dec.index_) = 3
  /\ dec.index_[2].is_keyframe /\ dec.index_[3].is_keyframe
  /\ dec.index_[3].last_keyframe_id = 2
  /\ StoredOutOfOrder

\* C10: after a successful BuildIndex the index is ordered by timestamp:
\* index[i].pts <= index[i+1].pts for every pair of adjacent positions.
C10_SortedByPts ==
  Built => \A i \in 1..(Len(dec.index_) - 1) : dec.index_[i].pts <= dec.index_[i + 1].pts

\* C11: a BuildIndex call on a decoder that already has an index is a no-op: the
\* index entries, is_vfr_, the frame count, next_frame_idx_ and the demuxer position
\* are the same after the call as before it, no packet is read, no Reset is done
\* and nothing is raised.
C11_BuildIndexNoOp ==
  [][(HasIndex(dec) /\ last'.op = "BuildIndex")
       => /\ dec'.index_ = dec.index_ /\ dec'.is_vfr_ = dec.is_vfr_
          /\ dec'.num_frames_ = dec.num_frames_
          /\ dec'.next_frame_idx_ = dec.next_frame_idx_ /\ dec'.pos = dec.pos
          /\ dec'.n_read = 0 /\ dec'.n_reset = 0 /\ dec'.n_seek = 0
          /\ last'.raised = "none"]_vars

\* A BuildIndex that builds ends with Reset, so a decoder that stands at frame 1
\* after a successful BuildIndex went through the early return.
C11_Witness ==
  /\ Built /\ HasIndex(dec) /\ dec.next_frame_idx_ = 1 /\ dec.pos > 0
  /\ dec.n_reset = 0

\* C12: a SeekFrame(k) call on a decoder with next_frame_idx_ = k issues no
\* container-level seek, performs no Reset, reads no frame and leaves
\* next_frame_idx_ = k.
C12_SeekToCurrentIsNoOp ==
  [][(last'.op = "SeekFrame" /\ last'.arg = dec.next_frame_idx_ /\ last'.arg >= 0)
       => /\ dec'.n_seek = 0 /\ dec'.n_reset = 0 /\ dec'.n_read = 0
          /\ dec'.next_frame_idx_ = dec.next_frame_idx_]_vars

\* C13: a SeekFrame(t) call with t < 0 or t >= NumFrames() raises the fatal
\* invalid-frame error, from every decoder state, and issues no container-level
\* seek and reads no frame.
C13_OutOfRangeSeekRaises ==
  (last.called /\ last.op = "SeekFrame"
     /\ (last.arg < 0 \/ last.arg >= dec.num_frames_))
    => /\ last.raised = "invalid_seek_frame_id"
       /\ dec.n_seek = 0 /\ dec.n_read = 0

C13_Witness ==
  /\ last.called /\ last.op = "SeekFrame"
  /\ dec.num_frames_ = 2 /\ last.arg = dec.num_frames_ /\ dec.next_frame_idx_ = 1
  /\ last.raised = "invalid_seek_frame_id"

\* The timestamps of the index, in index order.
IndexPts == [i \in 1..Len(dec.index_) |-> dec.index_[i].pts]

\* C14: after a successful BuildIndex, is_vfr_ is true exactly when the index has
\* at least 4 entries and some step pts[i] - pts[i-1] with i >= 2 differs from
\* the first step pts[1] - pts[0] (positions 0-based).
C14_VfrExactlyOnUnevenSteps ==
  Built => (dec.is_vfr_ <=>
              /\ Len(IndexPts) >= 4
              /\ \E i \in 3..Len(IndexPts) :
                   IndexPts[i] - IndexPts[i - 1] # IndexPts[2] - IndexPts[1])

\* s is an initial segment of t.
IsPrefix(s, t) == Len(s) <= Len(t) /\ SubSeq(t, 1, Len(s)) = s

\* C15: the recorded errors are re-raised in the order they were recorded: at
\* every moment the errors raised so far are the oldest recorded ones, in
\* recording order, the list holds exactly the recorded errors not yet raised,
\* and no recorded error is raised twice.
C15_RethrownOldestFirst ==
  (exec # NoCall)
    => /\ IsPrefix(exec.rethrown, exec.recorded)
       /\ exec.rethrown \o exec.errors_ = exec.recorded
       /\ \A i, j \in 1..Len(exec.rethrown) :
            exec.rethrown[i] = exec.rethrown[j] => i = j

C15_Witness ==
  /\ exec # NoCall /\ Len(exec.recorded) = 2 /\ exec.recorded[1] # exec.recorded[2]
  /\ exec.rethrown = exec.recorded /\ exec.errors_ = <<>>

\* An Outputs() call leaves its wait and returns or raises in this step.
OutputsEnds == con.pc = "share" /\ con.api = "Outputs" /\ con'.pc = "idle"

\* C16: on the asynchronous executor, an Outputs() call that ends while the queue
\* is stop-signaled, no operator error was ever recorded and Shutdown has not
\* completed raises 'Stop signaled', the first such call and every later one.
C16_GracefulStopStaysStopSignaled ==
  [][(OutputsEnds /\ exec.async /\ exec.stop /\ exec.recorded = <<>>
        /\ ctl.pc # "done")
       => con'.result = "Stop signaled"]_vars

ErrorsRaised == {"Stop signaled", "Unknown error"} \cup {OperatorError(st) : st \in StageSet}

\* C17: once the queue is stop-signaled, every Outputs() call that ends before
\* Shutdown has completed raises an error (a recorded error, 'Stop signaled' or
\* 'Unknown error') and returns no data, also when outputs are ready.
C17_NoDataAfterStop ==
  [][(OutputsEnds /\ exec.stop /\ ctl.pc # "done")
       => (con'.result \in ErrorsRaised /\ con'.data = 0 - 1)]_vars

\* A second Outputs() call has raised after the stop although an iteration's
\* outputs were ready to be shared.
C17_Witness ==
  /\ exec # NoCall /\ exec.stop /\ ctl.invoked /\ ctl.pc # "done"
  /\ con.pc = "idle" /\ con.api = "Outputs" /\ con.calls >= 2
  /\ con.result \in ErrorsRaised /\ con.data = 0 - 1
  /\ exec.ready_output # <<>>

\* The iterations delivered so far, which is the number of the iteration at the
\* front of the ready outputs.
Delivered == Len(exec.in_use) + exec.n_released

\* The outputs at the front of the ready queue are those of a fully produced
\* iteration: the GPU stage wrote that iteration into the slot.
FrontProduced ==
  /\ exec.ready_output # <<>>
  /\ exec.buf.gpu[Head(exec.ready_output).gpu] = Delivered

\* C18: on the asynchronous executor, when an operator has failed in a later
\* iteration (no shutdown was requested, no error was raised to a caller yet),
\* the Outputs() call for an earlier iteration whose outputs are ready returns
\* that iteration's data and raises nothing.
C18_EarlierIterationStillDelivered ==
  [][(OutputsEnds /\ exec.async /\ FrontProduced
        /\ exec.recorded # <<>> /\ exec.rethrown = <<>> /\ ~ctl.invoked)
       => (con'.result = "data" /\ con'.data = Delivered)]_vars

Downstream(stage) ==
  CASE stage = "cpu" -> exec.iteration_id_.mixed
    [] stage = "mixed" -> exec.iteration_id_.gpu
    [] stage = "gpu" -> exec.output_iteration_id_

Produced(up, down) ==
  /\ exec.iteration_id_[up] > workers[down].it
  /\ ~(workers[up].pc = "run_impl" /\ workers[up].it = workers[down].it)
  /\ workers[down].idxs[up] >= 0
  /\ exec.buf[up][workers[down].idxs[up]] = workers[down].it

\* C20: on the asynchronous executor, a Mixed stage running iteration i runs it
\* after the CPU stage has finished producing iteration i, and a GPU stage running
\* iteration i after the Mixed stage has finished iteration i.
C20_StageWaitsForUpstream ==
  (exec # NoCall /\ exec.async)
    => /\ workers.mixed.pc = "run_impl" => Produced("cpu", "mixed")
       /\ workers.gpu.pc = "run_impl" => Produced("mixed", "gpu")

\* The GPU stage runs iteration 0 and the Mixed stage iteration 1 while the CPU
\* stage has finished both.
C20_Witness ==
  /\ exec # NoCall /\ exec.async
  /\ workers.gpu.pc = "run_impl" /\ workers.gpu.it = 0
  /\ workers.mixed.pc = "run_impl" /\ workers.mixed.it = 1
  /\ workers.cpu.pc = "idle" /\ exec.iteration_id_.cpu = 2

\* the packets of the selected stream that carry neither pts nor dts
Untimed == {j \in 1..Len(src.packets) :
              src.packets[j].stream = "video" /\ EntryPts(src.packets[j]) = AV_NOPTS_VALUE}

\* C23: BuildIndex never returns normally when a packet of the selected stream
\* has no valid timestamp, when no frame was indexed, or when no indexed entry
\* is a keyframe.
C23_BuildIndexFailsFatally ==
  (last.called /\ last.op = "BuildIndex" /\ last.raised = "none") =>
    /\ Untimed = {}
    /\ Len(dec.index_) > 0
    /\ \E i \in 1..Len(dec.index_) : dec.index_[i].is_keyframe

\* C26: every BuildIndex call that scans the source and returns has reset the
\* session: next_frame_idx_ = 0, can_seek_ true, the source reopened at
\* position zero, so the next read delivers frame 0.
C26_BuildIndexEndsWithReset ==
  [][(last'.op = "BuildIndex" /\ ~HasIndex(dec) /\ last'.raised = "none") =>
       /\ dec'.next_frame_idx_ = 0
       /\ dec'.can_seek_
       /\ dec'.pos = 0
       /\ dec'.n_reset = 1]_vars

\* a BuildIndex that read a source of three packets to its end and kept one
\* entry has returned, the session reset by the call
C26_Witness ==
  /\ Built /\ dec.n_reset = 1 /\ dec.n_read = 0
  /\ dec.pos = 0 /\ dec.next_frame_idx_ = 0 /\ dec.can_seek_
  /\ Len(dec.index_) = 1 /\ Len(src.packets) = 3 /\ CountVideo(src.packets, 0) = 3

\* C27: Read(buffer, n) with n > 0 returns end-of-file exactly when
\* position >= size; otherwise it returns min(size - position, n), copies those
\* bytes from position on and advances position by the count returned.
\* Successive Reads from position 0 deliver the bytes of the buffer once, in
\* order, and end-of-file from then on.
C27_ReadContract ==
  (last.called /\ last.op = "Read") =>
    /\ (last.ret = AVERROR_EOF) <=> (last.before >= src.size_)
    /\ last.ret # AVERROR_EOF =>
         /\ last.ret = Min(src.size_ - last.before, last.arg)
         /\ src.position_ = last.before + last.ret
         /\ last.before >= 0 =>
              last.buffer = [i \in 1..last.ret |-> src.data_[last.before + i]]
    /\ ~dec.sought =>
         /\ dec.delivered = SubSeq(src.data_, 1, src.position_)
         /\ dec.eofs > 0 => dec.delivered = src.data_

\* last_keyframe_id of the entry at the 0-based position i of the index
LastKeyframeId(i) == dec.index_[i + 1].last_keyframe_id

\* the condition under which SeekFrame(t) at position c is to seek the container
JumpsByKeyframe(c, t) ==
  /\ t < c \/ t > c + MINIMUM_SEEK_LEAP
  /\ LastKeyframeId(t) # LastKeyframeId(c) \/ t < c

\* a SeekFrame(t) call that passes its validation, made with an index at a
\* valid position other than t
IndexedSeek ==
  /\ last'.op = "SeekFrame" /\ last'.raised = "none"
  /\ HasIndex(dec)
  /\ dec.next_frame_idx_ >= 0 /\ dec.next_frame_idx_ < Len(dec.index_)
  /\ last'.arg < Len(dec.index_)
  /\ last'.arg # dec.next_frame_idx_

\* C28: with an index, SeekFrame(t) at c # t seeks the container exactly when
\* (t < c or t > c + 10) and (the keyframe of t differs from that of c, or
\* t < c); the seek goes to the timestamp of the keyframe entry of t and, when
\* it succeeds, decoding continues from that keyframe; in every other case
\* there is no container seek and no reset, only t - c frame reads.
C28_KeyframeSeekExactlyWhenNeeded ==
  [][IndexedSeek =>
       LET c == dec.next_frame_idx_
           t == last'.arg
           k == LastKeyframeId(t)
       IN IF JumpsByKeyframe(c, t)
          THEN /\ dec'.n_seek = 1
               /\ k >= 0 => dec'.seek_ts = dec.index_[k + 1].pts
               /\ \/ dec'.n_reset = 0 /\ dec'.n_read = t - k
                  \/ dec'.n_reset = 1 /\ dec'.n_read = t
          ELSE /\ dec'.n_seek = 0
               /\ dec'.n_reset = 0
               /\ dec'.n_read = t - c]_vars

\* a seek from before frame 7 to frame 11 went to the keyframe at position 7
\* by a container seek that succeeded, and read the four frames 7..10
C28_Witness ==
  /\ last.called /\ last.op = "SeekFrame" /\ last.raised = "none" /\ last.arg = 11
  /\ HasIndex(dec) /\ dec.index_[12].last_keyframe_id = 7
  /\ dec.n_seek = 1 /\ dec.seek_ts = 7 /\ dec.n_reset = 0 /\ dec.n_read = 4
  /\ dec.next_frame_idx_ = 11

\* C29: when the container seek fails inside SeekFrame(t), the decoder is
\* reset, the frames 0..t-1 are read and discarded, and the call returns with
\* next_frame_idx_ = t and can_seek_ true; the failure is not raised.
C29_SeekFailureFallsBackToReset ==
  (last.called /\ last.op = "SeekFrame" /\ dec.seek_failed) =>
    /\ last.raised = "none"
    /\ dec.n_reset >= 1
    /\ dec.n_read = last.arg
    /\ dec.pos = AfterVideo(last.arg)
    /\ dec.next_frame_idx_ = last.arg
    /\ dec.can_seek_

\* a backward seek to frame 5 whose container seek failed
C29_Witness ==
  /\ last.called /\ last.op = "SeekFrame" /\ last.arg = 5 /\ last.raised = "none"
  /\ dec.seek_failed /\ dec.n_seek = 1 /\ dec.n_reset = 1 /\ dec.n_read = 5
  /\ dec.next_frame_idx_ = 5 /\ dec.can_seek_

\* a SeekFrame(t) call with t inside the stream, made without an index at a
\* valid position other than t
UnindexedSeek ==
  /\ last'.op = "SeekFrame"
  /\ last'.arg >= 0 /\ last'.arg < CountVideo(src.packets, 0)
  /\ ~HasIndex(dec)
  /\ dec.next_frame_idx_ >= 0
  /\ last'.arg # dec.next_frame_idx_

\* C30: without an index, SeekFrame(t) at a valid position c resets the session
\* exactly when t < c; a forward seek makes no Reset and no container seek and
\* reads t - c frames, a backward seek reads t frames after the Reset.
C30_ResetOnlyOnBackwardSeek ==
  [][UnindexedSeek =>
       LET c == dec.next_frame_idx_
           t == last'.arg
       IN /\ dec'.n_seek = 0
          /\ dec'.n_reset = (IF t < c THEN 1 ELSE 0)
          /\ dec'.n_read = (IF t < c THEN t ELSE t - c)
          /\ dec'.next_frame_idx_ = t]_vars

\* The index request i of the last DecodeFrames call resolves to, against the
\* frame count the call obtained from NumFrames().
Resolve(i) ==
  HandleBoundary(last.boundary_type, last.arg[i], 0, dec.num_frames_).value

NonDecreasing(seq) == \A i, j \in 1..Len(seq) : i <= j => seq[i] <= seq[j]

\* C24: a DecodeFrames call of either form that returns has made its SeekFrame
\* calls in non-decreasing order of the resolved index, one per request that
\* resolves to a frame of the stream, and output slot i holds the frame with
\* index Resolve(i) for every such request.
C24_SlotsHoldResolvedFrames ==
  (last.called /\ last.op = "DecodeFrames" /\ last.raised = "none") =>
    LET inside == {i \in 1..Len(last.arg) : Resolve(i) >= 0 /\ Resolve(i) < dec.num_frames_}
    IN /\ NonDecreasing(last.seeks)
       /\ Len(last.seeks) = Cardinality(inside)
       /\ \A i \in inside : last.out[i] = Resolve(i)

\* C25: a DecodeFrames call with boundary type CONSTANT and no constant frame
\* raises before any SeekFrame or frame read and before any slot is written,
\* and next_frame_idx_ is what it was before the call; with a constant frame
\* supplied, every request that resolves to -1 has the constant frame in its
\* output slot.
C25_ConstantFrameRequired ==
  (last.called /\ last.op = "DecodeFrames") =>
    /\ (last.boundary_type = "CONSTANT" /\ last.constant_frame = "null") =>
         /\ last.raised # "none"
         /\ last.seeks = <<>>
         /\ dec.n_seek = 0 /\ dec.n_read = 0
         /\ \A i \in 1..Len(last.out) : last.out[i] = Unwritten
         /\ dec.next_frame_idx_ = last.before
    /\ (last.constant_frame # "null" /\ last.raised = "none") =>
         \A i \in 1..Len(last.arg) : Resolve(i) = 0 - 1 => last.out[i] = ConstantFrame

\* A stage worker has left the loop of its thread.
Exited(w) == workers[w].pc = "idle" /\ ~workers[w].running

\* C22: every Shutdown() of the asynchronous executor returns, the second one
\* included, whatever the stage workers, the consumer and the error state were
\* when it was called; once it has returned the three stage workers have left
\* their loops.
C22_ShutdownTerminates ==
  /\ [](ctl.pc = "done" => \A w \in StageSet : Exited(w))
  /\ (ctl.pc = "joining") ~> (ctl.pc = "done")
\* The second Shutdown has returned; the first one found the GPU worker blocked
\* on its queue and the consumer blocked in Outputs(), and an operator failed.
C22_Witness ==
  /\ ctl.pc = "done" /\ ctl.shutdowns = MaxShutdowns
  /\ {"gpu", "consumer"} \subseteq ctl.blocked_at_stop
  /\ exec.recorded # <<>>
  /\ \A w \in StageSet : Exited(w)

\* C21: Outputs() and ShareOutputs() return the buffers of an iteration only
\* when no stage's device work for the shared slots is outstanding: the events
\* of the Mixed and GPU slots have fired, in every interleaving of the stage
\* threads, the device and the consumer.
C21_OutputsAfterDeviceWork ==
  (con.pc = "idle" /\ con.result = "data") => con.unfinished = {}
\* Outputs() has returned the first iteration, its events fired, while device
\* work of both stages for a later iteration is still outstanding.
C21_Witness ==
  /\ con.pc = "idle" /\ con.result = "data" /\ con.api = "Outputs" /\ con.data = 0
  /\ exec.async /\ exec.mixed_output_events_ > 0
  /\ exec.pending.gpu # {} /\ exec.pending.mixed # {}
  /\ con.unfinished = {}

\* C31: after a successful BuildIndex, every entry sorted before the first
\* keyframe of the index has last_keyframe_id equal to the position of that
\* first keyframe.
C31_EarlyEntriesPointToFirstKeyframe ==
  Built => \A i \in 0..(Len(dec.index_) - 1) :
             (\A k \in 0..i : ~dec.index_[k + 1].is_keyframe)
               => /\ KeyframePositions(dec.index_) # {}
                  /\ \A k \in KeyframePositions(dec.index_) :
                       dec.index_[i + 1].last_keyframe_id <= k
                  /\ dec.index_[i + 1].last_keyframe_id \in KeyframePositions(dec.index_)

\* C34: a SeekFrame call rejected for a target out of range leaves
\* next_frame_idx_ and the demuxer position as they were before the call,
\* whether or not the frame count was known before it.
C34_RejectedSeekChangesNothing ==
  [][(last'.op = "SeekFrame" /\ last'.raised = "invalid_seek_frame_id")
       => /\ dec'.next_frame_idx_ = dec.next_frame_idx_
          /\ dec'.pos = dec.pos]_vars

\* C36: a BuildIndex call that ends with a fatal error leaves no entry in the
\* index, so HasIndex() is false afterwards and a later BuildIndex scans again.
C36_NoPartialIndex ==
  (last.called /\ last.op = "BuildIndex" /\ last.raised # "none") => ~HasIndex(dec)

\* The packets BuildIndex keeps: those of the stream with a timestamp that is
\* not negative.
Indexable ==
  {j \in 1..Len(src.packets) :
     src.packets[j].stream = "video" /\ EntryPts(src.packets[j]) >= 0}

\* C37: after a successful BuildIndex, NumFrames() is the number of index
\* entries, which is the number of packets of the stream with a non-negative
\* timestamp; and a SeekFrame call accepted by a decoder with an index has a
\* target that is a position of the index.
C37_NumFramesIsIndexSize ==
  /\ Built => /\ NumFrames(dec).num_frames_ = Len(dec.index_)
              /\ Len(dec.index_) = Cardinality(Indexable)
  /\ (last.called /\ last.op = "SeekFrame" /\ last.raised = "none" /\ HasIndex(dec))
       => (last.arg >= 0 /\ last.arg < Len(dec.index_))

\* C40: whenever a SeekFrame call reaches its skip loop, next_frame_idx_ is not
\* past the target there, and the loop makes exactly target - next_frame_idx_
\* frame reads; for every index BuildIndex left, every decoder state the call
\* starts from and every outcome of the container seek.
C40_SkipLoopStartsNotPastTarget ==
  (last.called /\ last.op = "SeekFrame" /\ dec.skip_from # NoSkip) =>
    /\ dec.skip_from <= last.arg
    /\ dec.n_read = last.arg - dec.skip_from
\* A backward seek over an index whose target lies before the first keyframe:
\* the container seek went to entry 0 and the loop read up to the target.
C40_Witness ==
  /\ last.called /\ last.op = "SeekFrame" /\ last.raised = "none"
  /\ Len(dec.index_) = 2 /\ ~dec.index_[1].is_keyframe /\ dec.index_[2].is_keyframe
  /\ last.arg = 0 /\ dec.n_seek = 1 /\ ~dec.seek_failed
  /\ dec.skip_from = 0 /\ dec.n_read = 0

\* C38: after any sequence of Read and Seek calls 0 <= position_ <= size_; a
\* report-size Seek and a Seek with an unsupported mode leave position_ as it
\* was; and a Read that copies bytes copies them from inside [0, size_).
C38_PositionWithinFile ==
  /\ 0 <= src.position_ /\ src.position_ <= src.size_
  /\ (last.called /\ last.op = "Seek" /\ last.mode # "SEEK_SET")
       => src.position_ = last.before
  /\ (last.called /\ last.op = "Read" /\ last.ret # AVERROR_EOF)
       => (0 <= last.before /\ last.before + last.ret <= src.size_)

\* An Outputs() call starts in this step: ReleaseOutputs, then ShareOutputs up
\* to its wait.
OutputsBegins == con.pc = "idle" /\ con'.pc = "share" /\ con'.api = "Outputs"

\* An Outputs() or ShareOutputs() call returns an iteration's outputs in this
\* step.
Delivers == con.pc \in {"share", "sync"} /\ con'.pc = "idle" /\ con'.result = "data"

\* The in-use list without the buffers handed out by the latest call.
WithoutLatest(in_use) == SubSeq(in_use, 1, Len(in_use) - 1)

\* C32: Outputs() first releases the buffers handed out by the previous
\* Outputs / ShareOutputs call and only then shares the next iteration's, so
\* an Outputs() call that returns data leaves the caller with no outputs of an
\* Outputs() call before it; the calls deliver iterations 0, 1, 2, ... in order,
\* none skipped or repeated, output_iteration_id_ growing by one per delivery.
C32_OutputsReleasesPreviousCall ==
  /\ [][OutputsBegins
          => /\ exec'.in_use = WithoutLatest(exec.in_use)
             /\ exec'.ready_output = exec.ready_output]_vars
  /\ [][Delivers
          => /\ con'.data = Delivered' - 1
             /\ exec'.output_iteration_id_ = Delivered']_vars

\* C32, amended: Outputs() first releases the oldest buffers the caller still
\* holds and only then shares the next iteration's, so a caller that held at
\* most one iteration holds exactly one after an Outputs() call that returns
\* data; the calls that return data deliver iterations 0, 1, 2, ... in order,
\* none skipped or repeated, and output_iteration_id_ grows by one per call.
C32_OutputsReleasesOldest ==
  /\ [][OutputsBegins
          => /\ exec'.in_use = (IF exec.in_use = <<>> THEN <<>> ELSE Tail(exec.in_use))
             /\ exec'.ready_output = exec.ready_output
             /\ exec'.output_iteration_id_ = exec.output_iteration_id_ + 1]_vars
  /\ [][Delivers
          => /\ con'.data = Delivered' - 1
             /\ con'.data = exec'.output_iteration_id_ - 1
             /\ con.pc = "share" => Len(exec'.in_use) = Len(exec.in_use) + 1]_vars

\* Three Outputs() calls have delivered iterations 0, 1 and 2, and the caller
\* holds the last one only.
C32_Witness ==
  /\ exec # NoCall /\ con.pc = "idle" /\ con.api = "Outputs" /\ con.calls = 3
  /\ con.result = "data" /\ con.data = 2
  /\ exec.n_released = 2 /\ Len(exec.in_use) = 1 /\ exec.output_iteration_id_ = 3

\* The controlling thread executes the statement st of Shutdown in this step.
Executes(st) == ctl.pc = st /\ ctl'.pc # st

\* C33: Shutdown performs its steps in this order: ShutdownQueue, ForceStop of
\* the CPU, Mixed and GPU workers, SyncDevice, then Shutdown (join) of the three
\* workers; the device is synchronized only when all three workers were told to
\* stop, and a worker is joined only when the stop signal was raised.
C33_ShutdownOrder ==
  /\ [][ctl'.pc # ctl.pc
          => \/ ctl.pc \in {"idle", "done"} /\ ctl'.pc = "ShutdownQueue"
             \/ ctl.pc = "ShutdownQueue" /\ ctl'.pc = "ForceStop cpu" /\ exec'.stop
             \/ ctl.pc = "ForceStop cpu" /\ ctl'.pc = "ForceStop mixed"
                  /\ ~workers'.cpu.running
             \/ ctl.pc = "ForceStop mixed" /\ ctl'.pc = "ForceStop gpu"
                  /\ ~workers'.mixed.running
             \/ ctl.pc = "ForceStop gpu" /\ ctl'.pc = "SyncDevice"
                  /\ ~workers'.gpu.running
             \/ ctl.pc = "SyncDevice" /\ ctl'.pc = "Shutdown cpu"
             \/ ctl.pc = "Shutdown cpu" /\ ctl'.pc = "Shutdown mixed"
             \/ ctl.pc = "Shutdown mixed" /\ ctl'.pc = "Shutdown gpu"
             \/ ctl.pc = "Shutdown gpu" /\ ctl'.pc = "done"]_vars
  /\ [][Executes("SyncDevice") => \A w \in StageSet : ~workers[w].running]_vars
  /\ [][(\E w \in StageSet : Executes(JoinOf(w))) => exec.stop]_vars

\* The first Shutdown has joined the CPU worker while the GPU worker, told to
\* stop, is still inside its task.
C33_Witness ==
  /\ exec # NoCall /\ exec.async /\ ctl.pc = "Shutdown mixed" /\ ctl.shutdowns = 1
  /\ exec.stop /\ \A w \in StageSet : ~workers[w].running
  /\ workers.cpu.pc = "idle" /\ workers.gpu.pc = "run_impl"

\* An Outputs() call of the asynchronous executor exits by raising in this
\* step: from its wait, or from the error check at its start.
OutputsRaises ==
  /\ exec.async
  /\ \/ OutputsEnds /\ con'.result # "data"
     \/ con.pc = "idle" /\ con'.pc = "idle" /\ con'.calls = con.calls + 1

\* C39: whenever the asynchronous Outputs() exits by raising, also from the
\* worker error check at its start, exec_error_ is set and the queue is
\* stop-signaled when the exception reaches the caller.
C39_RaisingOutputsStopsPipeline ==
  [][OutputsRaises => (exec'.exec_error_ /\ exec'.stop)]_vars

\* The last DecodeFrames call resolved every request and handed the pairs to
\* DecodeFramesImpl, with a frame count above zero.
HandedToImpl ==
  /\ last.called /\ last.op = "DecodeFrames" /\ last.arg # <<>> /\ dec.num_frames_ > 0
  /\ \A i \in 1..Len(last.arg) :
       HandleBoundary(last.boundary_type, last.arg[i], 0, dec.num_frames_).raised = "none"

\* C35: in both DecodeFrames forms, with N = NumFrames() > 0, every resolved
\* index handed to DecodeFramesImpl is -1 or lies in [0, N), and -1 occurs only
\* under CONSTANT, where a slot is filled only from a constant frame that was
\* given; no slot is filled from slot -1 or from a null constant frame, and the
\* 'copy the last decoded frame' branch is not executed: a call that returns
\* has made one SeekFrame call per resolved index that is not -1.
C35_ResolvedIndicesInRange ==
  HandedToImpl =>
    /\ \A i \in 1..Len(last.arg) :
         /\ Resolve(i) = 0 - 1 \/ (Resolve(i) >= 0 /\ Resolve(i) < dec.num_frames_)
         /\ Resolve(i) = 0 - 1 => last.boundary_type = "CONSTANT"
         /\ last.out[i] # Garbage
         /\ (Resolve(i) = 0 - 1 /\ last.out[i] # Unwritten)
              => (last.out[i] = ConstantFrame /\ last.constant_frame = "given")
    /\ last.raised = "none"
         => Len(last.seeks) = Cardinality({i \in 1..Len(last.arg) : Resolve(i) # 0 - 1})
    /\ (last.boundary_type = "CONSTANT" /\ last.constant_frame = "null")
         => (last.raised = "constant_frame_required"
             /\ \A i \in 1..Len(last.arg) : last.out[i] = Unwritten)

\* A CONSTANT call over three frames: the request past the end is filled with
\* the constant frame, the other one is decoded.
C35_Witness ==
  /\ HandedToImpl /\ dec.num_frames_ = 3 /\ last.raised = "none"
  /\ last.boundary_type = "CONSTANT" /\ last.constant_frame = "given"
  /\ last.arg = <<3, 1>> /\ last.out = <<ConstantFrame, 1>> /\ last.seeks = <<1>>

====
